---------------------------- MODULE Spec2Model ----------------------------
(* Target-pursuit control loop of GERF-App (code_reference/dart_track.py):  *)
(* the orchestrator dart_track, the two trackers DartTracker (mocap mode)   *)
(* and VisualDartTracker (vision mode), the focus controller and the        *)
(* telemetry queue.                                                         *)
(*                                                                          *)
(* Units.  Positions and distances are integers in millimetres (the code    *)
(* divides the norm by 1000 to get metres; thresholds 0.1 m and 0.3 m are    *)
(* 100 and 300 here).  Angles are rationals in centidegrees <<num, den>>;    *)
(* the 2-decimal rounding of the code yields whole centidegrees.  The       *)
(* perf-counter timestamp of a telemetry sample is a clock reading and is   *)
(* left out of the sample.                                                  *)
EXTENDS Integers, Sequences, FiniteSets, TLC

VARIABLES
    config,           \* device configuration read by ConfigManager (immutable)
    lens,             \* lens hardware: does connect() succeed, calibration coefficients
    pc,               \* position of dart_track
    terminate_event,  \* the shared multiprocessing.Event given to dart_track
    tracker,          \* local variable tracker of dart_track
    raised,           \* exception that reached dart_track's except clause
    theia,            \* self.theia
    coefficients,     \* self.coefficients
    dist,             \* self.dist (mm)
    counter,          \* self.counter
    data_queue,       \* the bounded telemetry queue owned by the caller
    udp_buffer,       \* datagrams waiting in self.udp_socket
    udp_socket,       \* self.udp_socket
    visual_process,   \* self.visual_process
    visual_terminate, \* self.terminate_event of VisualDartTracker
    mocap_streamer,   \* mocap_streamer of dart_track
    dyna_opened,      \* DynaController objects on which open_port() was called
    dyna_closed,      \* close_port() calls
    shutdown_calls,   \* calls of tracker.shutdown()
    atexit_registered, \* cleanup is registered with atexit
    last_commanded_distance, \* history: the distance at the most recent focus move
    cycle,            \* what the most recent tracker.track() call did
    frame_counter, \* frame_counter of visual_track in the vision subprocess
    sent, \* datagrams <<port, frame_id>> the vision subprocess has sent
    shutdown_log, \* steps of the most recent tracker.shutdown() call, in order
    env_faults, \* environment: device calls may raise and any datagram may arrive in this run
    inversions, \* history: calls of np.linalg.inv so far
    bridge, \* the WebSocket bridge process (server/websocket_bridge.py)
    adapter, \* the DART adapter process (server/udp_dart_adapter.py)
    test_server, \* the UDP test server process (server/udp_test_server.py)
    supervisor  \* the launcher process (main.py, main_test.py)

vars == <<config, lens, pc, terminate_event, tracker, raised, theia, coefficients,
          dist, counter, data_queue, udp_buffer, udp_socket, visual_process,
          visual_terminate, mocap_streamer, dyna_opened, dyna_closed,
          shutdown_calls, atexit_registered, last_commanded_distance, cycle,
          frame_counter,
          sent,
          shutdown_log,
          env_faults,
          inversions,
          bridge,
          adapter,
          test_server,
          supervisor>>

\* the variables of the pursuit process (code_reference/dart_track.py)
pursuit_vars ==
    <<config, lens, pc, terminate_event, tracker, raised, theia, coefficients,
      dist, counter, data_queue, udp_buffer, udp_socket, visual_process,
      visual_terminate, mocap_streamer, dyna_opened, dyna_closed,
      shutdown_calls, atexit_registered, last_commanded_distance, cycle,
      frame_counter, sent, shutdown_log, env_faults, inversions>>

None == "None"

-----------------------------------------------------------------------------
(* Bounds *)

MaxCycles == 2        \* completed control cycles per run
QueueCap == 1         \* maxsize of data_queue
UdpBufCap == 1        \* datagrams the socket buffer holds
MaxFrames == 2        \* stereo frame pairs the vision subprocess processes
MaxTokens == 4        \* tokens of the longest server/config.py the launcher is run on
MaxTime == 18         \* half seconds the test server's trajectory is followed for
MaxMessages == 3      \* datagrams sent to the UDP port of a server process

-----------------------------------------------------------------------------
(* Program constants *)

MocapFocusThreshold == 100     \* 0.1 m
VisualFocusThreshold == 300    \* 0.3 m
VisualDistance == 1000         \* distance = 1.0
MaxSteps == 65535
DefaultMirrorMid == 4500       \* mirror_mid default 45 degrees
HalfBand == 2250               \* 22.5 degrees

-----------------------------------------------------------------------------
(* Input sets *)

\* target positions (mm, global frame)
Targets == { <<0, 0, 0>>, <<1000, 0, 0>>, <<1100, 0, 0>>, <<0, 2000, 0>> }

\* lens-calibration coefficient vectors, highest power first (steps per m^k)
CoeffChoices == { <<-30000, 40000>>, <<30000, 0, 20000>> }

\* encoder read-back of get_sync_pos (degrees * 1000)
EncoderReadings == { <<45000, 45000>>, <<44123, 46456>> }

\* angles returned by Reprojection.calculate_angles, converted to degrees * 100
ReprojectionAngles == { <<0, 0>>, <<3001, -6000>> }

CalibrationKeys == {"pan_origin", "tilt_origin", "rotation_matrix"}

MocapConfigs ==
    { [system |-> "qualisys", ip |-> TRUE,  port |-> FALSE],
      [system |-> "vicon",    ip |-> TRUE,  port |-> TRUE],
      [system |-> "vicon",    ip |-> TRUE,  port |-> FALSE],
      [system |-> "optitrack", ip |-> TRUE, port |-> TRUE],
      [system |-> "qualisys", ip |-> FALSE, port |-> FALSE] }

\* calibration.rotation_matrix of the configuration: an invertible matrix
IdentityMatrix == << <<1, 0, 0>>, <<0, 1, 0>>, <<0, 0, 1>> >>

\* a 3x3 matrix of determinant 0 (two equal rows)
SingularMatrix == << <<1, 0, 0>>, <<1, 0, 0>>, <<0, 0, 1>> >>

RotationMatrices == {IdentityMatrix, SingularMatrix}

\* a configuration ConfigManager cannot load
UnreadableConfig ==
    [ readable |-> FALSE, mode |-> "mocap", calibration |-> {}, dynamixel_port |-> "missing",
      theia_port |-> FALSE, mocap |-> [system |-> "qualisys", ip |-> FALSE, port |-> FALSE],
      use_kalman |-> TRUE, rotation_matrix |-> IdentityMatrix ]

Configs ==
    [ readable : {TRUE},
      mode : {"mocap", "visual"},
      calibration : SUBSET CalibrationKeys,
      dynamixel_port : {"port", "empty", "missing"},
      theia_port : BOOLEAN,
      mocap : MocapConfigs,
      use_kalman : BOOLEAN,
      rotation_matrix : RotationMatrices ]

LensStates ==
    { [connects |-> FALSE, coefficients |-> <<>>] }
    \cup [ connects : {TRUE}, coefficients : CoeffChoices \cup {<<>>} ]

-----------------------------------------------------------------------------
(* Arithmetic helpers *)

Abs(x) == IF x < 0 THEN -x ELSE x

Max(a, b) == IF a >= b THEN a ELSE b

Min(a, b) == IF a <= b THEN a ELSE b

RECURSIVE Gcd(_, _)
Gcd(a, b) == IF b = 0 THEN a ELSE Gcd(b, a % b)

\* int(): truncation toward zero of num/den, den > 0
Trunc(num, den) == IF num >= 0 THEN num \div den ELSE -((-num) \div den)

\* round(): nearest integer to num/den, ties to even, den > 0
RoundDiv(num, den) ==
    LET q == num \div den
        r == num - q * den
    IN  IF 2 * r < den THEN q
        ELSE IF 2 * r > den THEN q + 1
        ELSE IF q % 2 = 0 THEN q ELSE q + 1

RECURSIVE SqrtIter(_, _)
SqrtIter(n, x) ==
    CHOOSE root \in { IF y >= x THEN x ELSE SqrtIter(n, y) :
                         y \in {(x + n \div x) \div 2} } : TRUE

\* floor of the square root
ISqrt(n) == IF n = 0 THEN 0 ELSE SqrtIter(n, n)

\* np.linalg.norm of a 3-vector (mm); the targets have whole-mm norms
Norm(v) ==
    CHOOSE length \in { ISqrt(n) : n \in {v[1] * v[1] + v[2] * v[2] + v[3] * v[3]} } : TRUE

VecSub(a, b) == <<a[1] - b[1], a[2] - b[2], a[3] - b[3]>>

-----------------------------------------------------------------------------
(* Calibration frame (the values of the calibration keys when present) *)

pan_origin == <<0, 0, 0>>

tilt_origin == <<0, 0, 0>>

\* self.mean_origin = (self.pan_origin + self.tilt_origin) / 2.0
mean_origin ==
    << (pan_origin[1] + tilt_origin[1]) \div 2,
       (pan_origin[2] + tilt_origin[2]) \div 2,
       (pan_origin[3] + tilt_origin[3]) \div 2 >>

Det3(m) ==
      m[1][1] * (m[2][2] * m[3][3] - m[2][3] * m[3][2])
    - m[1][2] * (m[2][1] * m[3][3] - m[2][3] * m[3][1])
    + m[1][3] * (m[2][1] * m[3][2] - m[2][2] * m[3][1])

\* np.linalg.inv raises LinAlgError("Singular matrix") on such a matrix
Singular(m) == Det3(m) = 0

\* np.linalg.inv for an integer matrix of determinant 1 or -1 (adjugate / det)
MatInv(m) ==
    LET d == Det3(m)
    IN  << << d * (m[2][2] * m[3][3] - m[2][3] * m[3][2]),
              d * (m[1][3] * m[3][2] - m[1][2] * m[3][3]),
              d * (m[1][2] * m[2][3] - m[1][3] * m[2][2]) >>,
           << d * (m[2][3] * m[3][1] - m[2][1] * m[3][3]),
              d * (m[1][1] * m[3][3] - m[1][3] * m[3][1]),
              d * (m[1][3] * m[2][1] - m[1][1] * m[2][3]) >>,
           << d * (m[2][1] * m[3][2] - m[2][2] * m[3][1]),
              d * (m[1][2] * m[3][1] - m[1][1] * m[3][2]),
              d * (m[1][1] * m[2][2] - m[1][2] * m[2][1]) >> >>

MatVec(m, v) ==
    << m[1][1] * v[1] + m[1][2] * v[2] + m[1][3] * v[3],
       m[2][1] * v[1] + m[2][2] * v[2] + m[2][3] * v[3],
       m[3][1] * v[1] + m[3][2] * v[2] + m[3][3] * v[3] >>

\* np.dot(np.linalg.inv(self.rotation_matrix), point_global - origin); the
\* inverse is bound through a one-element set so that it is evaluated once
LocalFrame(rotation_matrix, point_global, origin) ==
    CHOOSE local \in { MatVec(inverse, offset) :
                          inverse \in {MatInv(rotation_matrix)},
                          offset \in {VecSub(point_global, origin)} } : TRUE

tilt_global_to_local(rotation_matrix, point_global) ==
    LocalFrame(rotation_matrix, point_global, tilt_origin)

pan_global_to_local(rotation_matrix, point_global) ==
    LocalFrame(rotation_matrix, point_global, pan_origin)

\* math.degrees(math.atan2(y, x)) in centidegrees, on the directions where it
\* is a whole number of degrees
Atan2Deg(y, x) ==
    CASE y = 0 /\ x >= 0 -> 0
      [] y = 0 /\ x < 0  -> 18000
      [] x = 0 /\ y > 0  -> 9000
      [] x = 0 /\ y < 0  -> -9000
      [] x > 0 /\ y = x  -> 4500
      [] x > 0 /\ y = -x -> -4500
      [] x < 0 /\ y = -x -> 13500
      [] x < 0 /\ y = x  -> -13500

calc_rot_comp(point_local) ==
    CHOOSE angles \in {
        << Atan2Deg(q[2], q[1]), Atan2Deg(q[3], h) >> :
            q \in {point_local},
            h \in {ISqrt(point_local[1] * point_local[1] + point_local[2] * point_local[2])}
        } : TRUE

\* utils.misc_funcs.num_to_range: linear rescaling of x from [in_min, in_max]
\* to [out_min, out_max]; the result is the rational <<num, den>>, den > 0
num_to_range(x, in_min, in_max, out_min, out_max) ==
    LET n == (x - in_min) * (out_max - out_min)
        d == in_max - in_min
    IN  IF d > 0 THEN <<out_min * d + n, d>> ELSE <<-(out_min * d + n), -d>>

\* round(v, 2) of an angle v = <<num, den>> centidegrees
round2(v) == RoundDiv(v[1], v[2])

\* a remap in the direction of the vision path's pan axis
DartMotorAngle_increasing(angle) ==
    round2(num_to_range(angle, -4500, 4500,
                        DefaultMirrorMid - HalfBand, DefaultMirrorMid + HalfBand))

\* DartTracker.track: geometric angles to dynamixel angles
DartMotorAngle(angle) ==
    round2(num_to_range(angle, 4500, -4500,
                        DefaultMirrorMid - HalfBand, DefaultMirrorMid + HalfBand))

\* VisualDartTracker.track: optical pan angle to motor position
VisualPanMotorAngle(angle) ==
    round2(num_to_range(angle, -4500, 4500,
                        DefaultMirrorMid - HalfBand, DefaultMirrorMid + HalfBand))

\* VisualDartTracker.track: optical tilt angle to motor position
VisualTiltMotorAngle(angle) ==
    round2(num_to_range(angle, 4500, -4500,
                        DefaultMirrorMid - HalfBand, DefaultMirrorMid + HalfBand))

-----------------------------------------------------------------------------
(* Focus controller *)

\* self.coefficients = None
NoCoefficients == <<>>

\* np.polyval(c, num/den): the numerator of the value over den^(Len(c)-1)
RECURSIVE IPow(_, _)
IPow(b, e) == IF e = 0 THEN 1 ELSE b * IPow(b, e - 1)

RECURSIVE PolyNum(_, _, _)
PolyNum(c, num, den) ==
    IF Len(c) = 1 THEN c[1]
    ELSE LET n == Len(c)
         IN  PolyNum(SubSeq(c, 1, n - 1), num, den) * num + c[n] * IPow(den, n - 1)

\* int(np.polyval(coeffs, distance)) for distance = distance_mm / 1000 m
PolyvalInt(coeffs, distance_mm) ==
    LET g == Gcd(distance_mm, 1000)
        num == distance_mm \div g
        den == 1000 \div g
    IN  Trunc(PolyNum(coeffs, num, den), IPow(den, Len(coeffs) - 1))

\* a clamp that forgets the upper limit
distance_to_steps_unclamped(coeffs, distance_mm) ==
    IF coeffs = NoCoefficients THEN 0
    ELSE Max(0, PolyvalInt(coeffs, distance_mm))

\* DartTracker.distance_to_steps and VisualDartTracker.distance_to_steps
distance_to_steps(coeffs, distance_mm) ==
    IF coeffs = NoCoefficients THEN 0
    ELSE Max(0, Min(PolyvalInt(coeffs, distance_mm), MaxSteps))

-----------------------------------------------------------------------------
(* State after construction *)

NoCycle ==
    [ outcome |-> "none", lost |-> FALSE, calls |-> <<>>, distance |-> 0,
      focus_move |-> -1, sync_pos |-> <<>>, sample |-> <<>> ]

\* point_3d of the envelopes that arrive complete
VisionPoints == { <<1000, 0, 0>>, <<0, 2000, 0>> }

\* a datagram whose payload is not JSON
NotJsonPacket ==
    [ json |-> FALSE, has_point |-> FALSE, point_3d |-> <<>>, timestamp |-> FALSE ]

\* a JSON envelope without the point_3d key
NoPointPacket ==
    [ json |-> TRUE, has_point |-> FALSE, point_3d |-> <<>>, timestamp |-> TRUE ]

\* a JSON envelope without the timestamp key
NoTimestampPacket ==
    [ json |-> TRUE, has_point |-> TRUE, point_3d |-> <<1000, 0, 0>>, timestamp |-> FALSE ]

\* a JSON envelope whose point_3d has two elements
ShortPointPacket ==
    [ json |-> TRUE, has_point |-> TRUE, point_3d |-> <<1000, 0>>, timestamp |-> TRUE ]

\* the envelopes of a producer that builds them as visual_track does
ProducerPackets ==
    [ json : {TRUE}, has_point : {TRUE}, point_3d : VisionPoints, timestamp : {TRUE} ]

\* the datagrams that can arrive on the tracker's port
VisionPackets ==
    ProducerPackets
    \cup { NotJsonPacket, NoPointPacket, NoTimestampPacket, ShortPointPacket }

-----------------------------------------------------------------------------
(* WebSocket bridge (server/websocket_bridge.py): state after construction *)

\* websocket connections a browser may open
Clients == {"ws1", "ws2"}

\* the messages sent to the bridge's port, numbered in order of arrival
Messages == 1 .. MaxMessages

\* self._latest_message = None; a message taken from an empty slot
NoMessage == 0

\* OptimizedUDPForwarder.__init__ and the module-level udp_forwarder, with
\* the task and thread positions, the socket buffer and the history the
\* properties refer to
OptimizedUDPForwarder_init ==
    [ running |-> FALSE,
      udp_thread |-> "none",          \* none, starting, listening, stopped
      udp_socket |-> "none",          \* none, bound, closed
      latest_message |-> NoMessage,
      new_data_event |-> FALSE,
      packets_received |-> 0,
      packets_sent |-> 0,
      packets_dropped |-> 0,
      websocket_clients |-> {},
      last_udp_data_time |-> FALSE,   \* is not None
      uptime |-> 0,                   \* latest reading of the time since start_time
      quiet |-> 0,                    \* latest reading of the time since
                                      \* last_udp_data_time
      task |-> "none",                \* continuous_broadcast_task: none, created,
                                      \* wait, send, stopped
      message |-> NoMessage,          \* message of the broadcast in progress
      targets |-> {},                 \* list(self.websocket_clients) of the broadcast
      pending |-> {},                 \* clients the broadcast has yet to send to
      clients_to_remove |-> {},
      buffer |-> <<>>,                \* datagrams waiting in udp_socket
      arrived |-> 0,                  \* datagrams sent to the port so far
      last_received |-> NoMessage,    \* history: message of the latest recvfrom
      last_sent |-> NoMessage,        \* history: message of the latest broadcast
      delivered |-> [c \in Clients |-> NoMessage],  \* history: latest message
                                      \* each client was sent
      connection |-> [c \in Clients |-> "new"],     \* new, open, closed
      removed |-> {},                 \* history: clients removed after a failed send
      starved |-> FALSE,              \* history: the listener raised on starvation
      stop_called |-> FALSE ]         \* history: stop() was called

-----------------------------------------------------------------------------
(* DART adapter (server/udp_dart_adapter.py): state after construction *)

\* DartDataAdapter.__init__, with the position of the adapter thread, the
\* buffer of dart_socket and the history the properties refer to
DartDataAdapter_init ==
    [ running |-> FALSE,
      adapter_thread |-> "none",      \* none, alive, dead
      dart_socket |-> "none",         \* none, bound, closed
      packets_received |-> 0,
      packets_sent |-> 0,
      parse_errors |-> 0,
      last_data_time |-> FALSE,       \* is not None
      uptime |-> 0,                   \* latest reading of the time since start_time
      quiet |-> 0,                    \* latest reading of the time since last_data_time
      buffer |-> <<>>,                \* datagrams waiting in dart_socket
      arrived |-> 0,                  \* datagrams sent to the port so far
      forwarded |-> <<>>,             \* history: messages sent to the bridge port
      log |-> <<>>,                   \* history: what became of each datagram received
      starved |-> FALSE,              \* history: the loop raised on starvation
      stop_called |-> FALSE ]         \* history: stop() was called

-----------------------------------------------------------------------------
(* UDP test server (server/udp_test_server.py): state after module load    *)

\* the client absent from CLIENTS
NoClient == [present |-> FALSE, active |-> FALSE, thread |-> 0, last_seen_age |-> 0]

\* a time.time() reading that is None
NoTime == -1

\* the client_handler threads that call generate_3d_coordinates, one per
\* client that is streamed to
HandlerThreads == {1, 2}

\* a handler thread between two calls of generate_3d_coordinates
NoCall ==
    [ pc |-> "idle", current_time |-> 0, elapsed_time |-> 0,
      began_in_delay |-> FALSE, result |-> [kind |-> "pending"] ]

\* CLIENTS = {} for the one client address of the model, the main loop's
\* position, the handler threads started so far (0 is thread None), the
\* client's messages waiting in the socket, and the time since the server
\* last received a message of the client; trajectory_state as the module
\* sets it, times in half seconds, linear_progress in 1 / LINEAR_DURATION^2,
\* with the clock time.time() reads, the calls of generate_random_target so
\* far and where each handler thread is in generate_linear_coordinates
TestServer_init ==
    [ pc |-> "init", client |-> NoClient, silent_age |-> 0, inbox |-> 0,
      arrived |-> 0, started |-> 0,
      handlers |-> [h \in 1 .. MaxMessages |-> "none"],
      trajectory_state |-> [ linear_start_time |-> NoTime, linear_progress |-> 0,
                             linear_in_delay |-> FALSE,
                             linear_delay_start |-> NoTime,
                             linear_current_target |-> <<>> ],
      clock |-> 0, targets_generated |-> 0,
      calls |-> [t \in HandlerThreads |-> NoCall] ]

-----------------------------------------------------------------------------
(* Launchers (main.py, main_test.py): state at the call of                  *)
(* start_production_servers / start_servers                                 *)

\* the child processes a launcher may start
Children == {"UDP Test Server", "DART Adapter", "WebSocket Bridge Server"}

\* processes = [], no child started; config_py is the text of
\* server/config.py as a sequence of tokens, "\n" between two lines, and
\* config_written says that this run has rewritten it; step is the position in the try body,
\* mon the position of the monitor loop's for, i the position of the finally
\* clause's loop, pending the child whose Popen has started it and whose
\* processes.append has not run yet, output the children with a line waiting
\* in their stdout pipe
Supervisor_init ==
    [ pc |-> "entry", script |-> "none", step |-> 1, processes |-> <<>>,
      pending |-> "none", mon |-> 1, i |-> 1, output |-> {},
      config_py |-> <<"UDP_HOST = ", "'localhost'", "\n", "UDP_PORT = ", "12344">>,
      config_written |-> FALSE,
      child |-> [c \in Children |-> "none"],
      terminated |-> {}, killed |-> {}, stop_failed |-> {} ]

Init ==
    /\ config \in Configs \cup {UnreadableConfig}
    /\ lens \in LensStates
    /\ (~config.theia_port) => ~lens.connects
    /\ pc = "init"
    /\ terminate_event = FALSE
    /\ tracker = None
    /\ raised = "none"
    /\ theia = None
    /\ coefficients = NoCoefficients
    /\ dist = 0
    /\ counter = 0
    /\ data_queue = <<>>
    /\ udp_buffer = <<>>
    /\ udp_socket = None
    /\ visual_process = None
    /\ visual_terminate = FALSE
    /\ frame_counter = 0
    /\ sent = {}
    /\ shutdown_log = <<>>
    /\ env_faults \in BOOLEAN
    /\ inversions = 0
    /\ bridge = OptimizedUDPForwarder_init
    /\ adapter = DartDataAdapter_init
    /\ test_server = TestServer_init
    /\ supervisor = Supervisor_init
    /\ mocap_streamer = None
    /\ dyna_opened = 0
    /\ dyna_closed = 0
    /\ shutdown_calls = 0
    /\ atexit_registered = TRUE
    /\ last_commanded_distance = 0
    /\ cycle = NoCycle

-----------------------------------------------------------------------------
(* Initializing *)

\* the lens part of both constructors: self.theia and self.coefficients
TheiaInit(c, l) ==
    IF c.theia_port /\ l.connects
    THEN [theia |-> "connected", coefficients |-> l.coefficients]
    ELSE [theia |-> None, coefficients |-> NoCoefficients]

\* a constructor that skips the calibration check
DartTracker_init_unchecked(c, l) ==
    [ raised |-> "none", theia |-> TheiaInit(c, l).theia,
      coefficients |-> TheiaInit(c, l).coefficients, dyna_opened |-> 1 ]

\* DartTracker.__init__
DartTracker_init(c, l) ==
    IF c.calibration # CalibrationKeys
    THEN [ raised |-> "ValueError: calibration", theia |-> None,
           coefficients |-> NoCoefficients, dyna_opened |-> 0 ]
    ELSE IF c.dynamixel_port # "port"
    THEN [ raised |-> "ValueError: dynamixel_port", theia |-> None,
           coefficients |-> NoCoefficients, dyna_opened |-> 0 ]
    ELSE [ raised |-> "none", theia |-> TheiaInit(c, l).theia,
           coefficients |-> TheiaInit(c, l).coefficients, dyna_opened |-> 1 ]

\* VisualDartTracker.__init__
VisualDartTracker_init(c, l) ==
    IF c.calibration # CalibrationKeys
    THEN [ raised |-> "ValueError: calibration", theia |-> None,
           coefficients |-> NoCoefficients, dyna_opened |-> 0,
           udp_socket |-> None, visual_process |-> None ]
    ELSE IF c.dynamixel_port = "missing"
    THEN [ raised |-> "KeyError: dynamixel_port", theia |-> None,
           coefficients |-> NoCoefficients, dyna_opened |-> 0,
           udp_socket |-> "open", visual_process |-> "alive" ]
    ELSE IF c.dynamixel_port = "empty"
    THEN [ raised |-> "ValueError: dynamixel_port", theia |-> None,
           coefficients |-> NoCoefficients, dyna_opened |-> 1,
           udp_socket |-> "open", visual_process |-> "alive" ]
    ELSE [ raised |-> "none", theia |-> TheiaInit(c, l).theia,
           coefficients |-> TheiaInit(c, l).coefficients, dyna_opened |-> 2,
           udp_socket |-> "open", visual_process |-> "alive" ]

\* dart_track, mocap branch up to mocap_streamer.start()
MocapStreamer_init(c) ==
    IF ~c.mocap.ip THEN "ValueError: mocap ip"
    ELSE IF c.mocap.system = "qualisys" THEN "none"
    ELSE IF c.mocap.system = "vicon"
    THEN (IF c.mocap.port THEN "none" ELSE "ValueError: vicon port")
    ELSE "ValueError: unknown mocap system"

\* dart_track from the start of the try block to the first loop test
dart_track_init ==
    /\ pc = "init"
    /\ IF ~config.readable
       THEN \* ConfigManager(device_id=current_device_id) raises
            /\ raised' = "ConfigManager error"
            /\ UNCHANGED <<tracker, theia, coefficients, dyna_opened, udp_socket,
                           visual_process, mocap_streamer>>
       ELSE IF config.mode = "visual"
       THEN LET r == VisualDartTracker_init(config, lens)
            IN  /\ tracker' = IF r.raised = "none" THEN "VisualDartTracker" ELSE None
                /\ raised' = r.raised
                /\ theia' = r.theia
                /\ coefficients' = r.coefficients
                /\ dyna_opened' = r.dyna_opened
                /\ udp_socket' = r.udp_socket
                /\ visual_process' = r.visual_process
                /\ UNCHANGED mocap_streamer
       ELSE LET m == MocapStreamer_init(config)
                r == DartTracker_init(config, lens)
            IN  /\ mocap_streamer' = IF m = "none" THEN "started" ELSE None
                /\ tracker' = IF m = "none" /\ r.raised = "none" THEN "DartTracker" ELSE None
                /\ raised' = IF m # "none" THEN m ELSE r.raised
                /\ theia' = IF m = "none" THEN r.theia ELSE None
                /\ coefficients' = IF m = "none" THEN r.coefficients ELSE NoCoefficients
                /\ dyna_opened' = IF m = "none" THEN r.dyna_opened ELSE 0
                /\ UNCHANGED <<udp_socket, visual_process>>
    /\ pc' = IF raised' = "none" THEN "check" ELSE "cleanup"
    /\ UNCHANGED <<supervisor, test_server, adapter, bridge, inversions, env_faults, shutdown_log, sent, frame_counter, config, lens,
                   terminate_event, dist, counter, data_queue, udp_buffer,
                   visual_terminate, dyna_closed, shutdown_calls, atexit_registered,
                   last_commanded_distance, cycle>>

-----------------------------------------------------------------------------
(* Running *)

\* a loop that never looks at terminate_event
loop_test_ignores_event ==
    /\ pc = "check"
    /\ counter < MaxCycles
    /\ pc' = "track"
    /\ UNCHANGED <<supervisor, test_server, adapter, bridge, inversions, env_faults, shutdown_log, sent, frame_counter, config, lens,
                   terminate_event, tracker, raised, theia, coefficients, dist,
                   counter, data_queue, udp_buffer, udp_socket, visual_process,
                   visual_terminate, mocap_streamer, dyna_opened, dyna_closed,
                   shutdown_calls, atexit_registered, last_commanded_distance, cycle>>

\* while not terminate_event.is_set(): one test of the loop condition
loop_test ==
    /\ pc = "check"
    /\ terminate_event \/ counter < MaxCycles
    /\ pc' = IF terminate_event THEN "cleanup" ELSE "track"
    /\ UNCHANGED <<supervisor, test_server, adapter, bridge, inversions, env_faults, shutdown_log, sent, frame_counter, config, lens,
                   terminate_event, tracker, raised, theia, coefficients, dist,
                   counter, data_queue, udp_buffer, udp_socket, visual_process,
                   visual_terminate, mocap_streamer, dyna_opened, dyna_closed,
                   shutdown_calls, atexit_registered, last_commanded_distance, cycle>>

\* a push that makes room by discarding the oldest sample
put_drop_oldest(q, data) == IF Len(q) < QueueCap THEN Append(q, data) ELSE Append(Tail(q), data)

\* self.data_queue.put_nowait(data) under try/except queue.Full
put_nowait(q, data) == IF Len(q) < QueueCap THEN Append(q, data) ELSE q


\* the estimator calls of one fusion cycle with update before predict
KalmanCalls_update_first(lost) ==
    <<"update_F", "update", "adapt_Q", "predict", "predict_latency", "get_position">>

\* the estimator calls of one fusion cycle when latency compensation is left
\* out of a cycle without a measurement
KalmanCalls_no_latency_when_lost(lost) ==
    <<"update_F">>
    \o (IF lost THEN <<"predict">>
                ELSE <<"predict", "update", "adapt_Q", "predict_latency">>)
    \o <<"get_position">>

\* DartTracker.track, use_kalman branch: the calls made on self.kalman, in order
KalmanCalls(lost) ==
    <<"update_F">>
    \o (IF lost THEN <<"predict">> ELSE <<"predict", "update", "adapt_Q">>)
    \o <<"predict_latency", "get_position">>

\* a hysteresis test that always fires
DartFocusDue_always(distance, d) == TRUE

\* DartTracker.track: if abs(distance - self.dist) > 0.1
DartFocusDue(distance, d) == Abs(distance - d) > MocapFocusThreshold

\* VisualDartTracker.track: if abs(distance - self.dist) > 0.3
VisualFocusDue(distance, d) == Abs(distance - d) > VisualFocusThreshold

\* a lost-target test that never skips
DartSkipsCycle_never(use_kalman, lost) == FALSE

\* DartTracker.track, raw branch: if self.mocap_target.lost: return
DartSkipsCycle(use_kalman, lost) == ~use_kalman /\ lost

\* the actuator call that raises in one call of track(), if any
ActuatorFaults == {"none", "set_sync_pos", "get_sync_pos"}

\* One call of DartTracker.track on a tracker with the given fields.
\* lost, position: self.mocap_target; estimate: the position the estimator
\* returns; enc: the encoder read-back; io: the actuator call that raises.
\* inversions: the calls of np.linalg.inv made by pan_global_to_local and
\* tilt_global_to_local in this call of track().
DartTracker_cycle(use_kalman, rotation_matrix, th, coeffs, d, lost, position, estimate, enc, io) ==
    IF DartSkipsCycle(use_kalman, lost)
    THEN [ cycle |-> [NoCycle EXCEPT !.outcome = "skipped", !.lost = lost],
           dist |-> d, raised |-> "none", inversions |-> 0 ]
    ELSE
    LET kalman == IF use_kalman THEN KalmanCalls(lost) ELSE <<>>
        estimated_position == IF use_kalman THEN estimate ELSE position
    IN  \* distance and the two angles are computed once per call
        CHOOSE result \in {
          LET due == DartFocusDue(distance, d)
              steps == Max(0, distance_to_steps(coeffs, distance))
              data == << estimated_position, pan_angle, tilt_angle,
                         RoundDiv(enc[1], 10), RoundDiv(enc[2], 10) >>
          IN  IF due /\ th = None
              THEN \* self.theia is None: self.theia.move_axis raises AttributeError
                   [ cycle |-> [ outcome |-> "raised", lost |-> lost,
                                 calls |-> kalman \o <<"distance_to_steps">>,
                                 distance |-> distance, focus_move |-> -1,
                                 sync_pos |-> <<>>, sample |-> <<>> ],
                     dist |-> d, raised |-> "AttributeError: move_axis", inversions |-> 0 ]
              ELSE IF Singular(rotation_matrix)
              THEN \* np.linalg.inv in pan_global_to_local raises LinAlgError,
                   \* after the focus stage of this call
                   [ cycle |-> [ outcome |-> "raised", lost |-> lost,
                                 calls |-> kalman
                                           \o (IF due THEN <<"distance_to_steps", "move_axis">>
                                                      ELSE <<>>),
                                 distance |-> distance,
                                 focus_move |-> IF due THEN steps ELSE -1,
                                 sync_pos |-> <<>>, sample |-> <<>> ],
                     dist |-> IF due THEN distance ELSE d,
                     raised |-> "LinAlgError: Singular matrix", inversions |-> 1 ]
              ELSE IF io # "none"
              THEN \* self.dyna.set_sync_pos or get_sync_pos raises: nothing in
                   \* track() catches it
                   [ cycle |-> [ outcome |-> "raised", lost |-> lost,
                                 calls |-> kalman
                                           \o (IF due THEN <<"distance_to_steps", "move_axis">>
                                                      ELSE <<>>)
                                           \o (IF io = "set_sync_pos"
                                               THEN <<"set_sync_pos">>
                                               ELSE <<"set_sync_pos", "get_sync_pos">>),
                                 distance |-> distance,
                                 focus_move |-> IF due THEN steps ELSE -1,
                                 sync_pos |-> IF io = "set_sync_pos"
                                              THEN <<>> ELSE <<pan_angle, tilt_angle>>,
                                 sample |-> <<>> ],
                     dist |-> IF due THEN distance ELSE d,
                     raised |-> "Exception: dyna", inversions |-> 2 ]
              ELSE [ cycle |-> [ outcome |-> "completed", lost |-> lost,
                                 calls |-> kalman
                                           \o (IF due THEN <<"distance_to_steps", "move_axis">>
                                                      ELSE <<>>)
                                           \o <<"set_sync_pos", "get_sync_pos", "put_nowait">>,
                                 distance |-> distance,
                                 focus_move |-> IF due THEN steps ELSE -1,
                                 sync_pos |-> <<pan_angle, tilt_angle>>,
                                 sample |-> data ],
                     dist |-> IF due THEN distance ELSE d, raised |-> "none",
                     inversions |-> 2 ]
          : distance \in {Norm(VecSub(estimated_position, mean_origin))},
            pan_angle \in {DartMotorAngle(
                               calc_rot_comp(pan_global_to_local(rotation_matrix,
                                                                 estimated_position))[1])},
            tilt_angle \in {DartMotorAngle(
                               calc_rot_comp(tilt_global_to_local(rotation_matrix,
                                                                  estimated_position))[2])}
          } : TRUE

\* tracker.track() in mocap mode, as called by the loop of dart_track
DartTracker_track ==
    /\ pc = "track"
    /\ tracker = "DartTracker"
    /\ UNCHANGED <<supervisor, test_server, adapter, bridge, env_faults, shutdown_log, sent, frame_counter, config, lens,
                   terminate_event, tracker, theia, coefficients, udp_buffer,
                   udp_socket, visual_process, visual_terminate, mocap_streamer,
                   dyna_opened, dyna_closed, shutdown_calls, atexit_registered>>
    /\ \E lost \in BOOLEAN, p \in Targets, enc \in EncoderReadings,
          io \in (IF env_faults THEN ActuatorFaults ELSE {"none"}) :
          \* p is the measurement in raw mode and the estimate in fusion mode
          \E r \in {DartTracker_cycle(config.use_kalman, config.rotation_matrix, theia,
                                      coefficients, dist, lost, p, p, enc, io)} :
          LET completed == r.cycle.outcome = "completed"
          IN  /\ cycle' = r.cycle
              /\ dist' = r.dist
              /\ raised' = r.raised
              /\ inversions' = inversions + r.inversions
              /\ counter' = IF completed THEN counter + 1 ELSE counter
              /\ data_queue' = IF completed THEN put_nowait(data_queue, r.cycle.sample)
                                            ELSE data_queue
              /\ pc' = IF r.cycle.outcome = "raised" THEN "cleanup" ELSE "check"
              /\ last_commanded_distance' =
                     IF r.cycle.focus_move # -1 THEN r.cycle.distance
                                                ELSE last_commanded_distance

\* a parse that takes every datagram for an envelope with point_3d
PacketParses_always(packet) == TRUE

\* VisualDartTracker.track, the try block: json.loads succeeds and the
\* envelope has the key point_3d
PacketParses(packet) == packet.json /\ packet.has_point

\* One call of VisualDartTracker.track that received the datagram packet.
\* angles: what self.reprojection.calculate_angles returns.
VisualDartTracker_cycle(th, coeffs, d, packet, angles) ==
    IF ~PacketParses(packet)
    THEN \* json.JSONDecodeError / KeyError / ValueError: warning and return
         [ cycle |-> [NoCycle EXCEPT !.outcome = "skipped", !.calls = <<"recvfrom">>],
           dist |-> d ]
    ELSE
    LET position_3d == packet.point_3d
        distance == VisualDistance
        due == VisualFocusDue(distance, d)
        steps == Max(0, distance_to_steps(coeffs, distance))
        pan_angle == VisualPanMotorAngle(angles[1])
        tilt_angle == VisualTiltMotorAngle(angles[2])
        data == << position_3d, pan_angle, tilt_angle, 0, 0 >>
    IN  [ cycle |-> [ outcome |-> "completed", lost |-> FALSE,
                      calls |-> <<"recvfrom", "calculate_angles">>
                                \o (IF due THEN <<"distance_to_steps">> ELSE <<>>)
                                \o (IF due /\ th # None THEN <<"move_axis">> ELSE <<>>)
                                \o <<"put_nowait">>,
                      distance |-> distance,
                      focus_move |-> IF due /\ th # None THEN steps ELSE -1,
                      sync_pos |-> <<>>,
                      sample |-> data ],
          dist |-> IF due THEN distance ELSE d ]

\* tracker.track() in vision mode: blocks in recvfrom until a datagram is there
VisualDartTracker_track ==
    /\ pc = "track"
    /\ tracker = "VisualDartTracker"
    /\ udp_buffer # <<>>
    /\ udp_buffer' = Tail(udp_buffer)
    /\ pc' = "check"
    /\ UNCHANGED <<supervisor, test_server, adapter, bridge, inversions, env_faults, shutdown_log, sent, frame_counter, config, lens,
                   terminate_event, tracker, raised, theia, coefficients, udp_socket,
                   visual_process, visual_terminate, mocap_streamer, dyna_opened,
                   dyna_closed, shutdown_calls, atexit_registered>>
    /\ \E angles \in ReprojectionAngles :
          \E r \in {VisualDartTracker_cycle(theia, coefficients, dist,
                                            Head(udp_buffer), angles)} :
          LET completed == r.cycle.outcome = "completed"
          IN  /\ cycle' = r.cycle
              /\ dist' = r.dist
              /\ counter' = IF completed THEN counter + 1 ELSE counter
              /\ data_queue' = IF completed THEN put_nowait(data_queue, r.cycle.sample)
                                            ELSE data_queue
              /\ last_commanded_distance' =
                     IF r.cycle.focus_move # -1 THEN r.cycle.distance
                                                ELSE last_commanded_distance

\* udp_ports = [12345, 12346, 12347], the second argument VisualDartTracker
\* gives visual_track
udp_ports == [ kind |-> "list", ports |-> <<12345, 12346, 12347>> ]

\* udp_socket.sendto(message_bytes, ('255.255.255.255', udp_port)) in
\* visual_track: the datagrams that leave for frame frame_id. A port that is
\* not an integer makes sendto raise TypeError, which the except clause
\* around it swallows.
sendto(udp_port, frame_id) ==
    IF udp_port.kind = "int" THEN { <<udp_port.port, frame_id>> } ELSE {}

\* one turn of the loop of visual_track on a stereo frame pair that
\* stereo_track.update processes: frame_counter += 1, then the send
visual_track_frame ==
    /\ visual_process = "alive"
    /\ ~visual_terminate
    /\ frame_counter < MaxFrames
    /\ frame_counter' = frame_counter + 1
    /\ sent' = sent \cup sendto(udp_ports, frame_counter + 1)
    /\ UNCHANGED <<supervisor, test_server, adapter, bridge, inversions, env_faults, config, lens, pc, terminate_event, tracker, raised, theia,
                   coefficients, dist, counter, data_queue, udp_buffer, udp_socket,
                   visual_process, visual_terminate, mocap_streamer, dyna_opened,
                   dyna_closed, shutdown_calls, atexit_registered,
                   last_commanded_distance, cycle, shutdown_log>>

\* visual_track returns by itself: no camera frames within frame_wait_timeout,
\* or an exception outside the loop
visual_track_returns ==
    /\ visual_process = "alive"
    /\ visual_process' = "exited"
    /\ UNCHANGED <<supervisor, test_server, adapter, bridge, inversions, config, lens, pc, terminate_event, tracker, raised, theia,
                   coefficients, dist, counter, data_queue, udp_buffer, udp_socket,
                   visual_terminate, mocap_streamer, dyna_opened, dyna_closed,
                   shutdown_calls, atexit_registered, last_commanded_distance, cycle,
                   frame_counter, sent, shutdown_log, env_faults>>

\* a datagram from some sender on the network reaches the port the tracker's
\* socket is bound to
udp_datagram_arrives ==
    /\ udp_socket = "open"
    /\ Len(udp_buffer) < UdpBufCap
    /\ \E packet \in (IF env_faults THEN VisionPackets
                                     ELSE ProducerPackets \cup {NoPointPacket}) :
          udp_buffer' = Append(udp_buffer, packet)
    /\ UNCHANGED <<supervisor, test_server, adapter, bridge, inversions, env_faults, shutdown_log, sent, frame_counter, config, lens, pc,
                   terminate_event, tracker, raised, theia, coefficients, dist,
                   counter, data_queue, udp_socket, visual_process, visual_terminate,
                   mocap_streamer, dyna_opened, dyna_closed, shutdown_calls,
                   atexit_registered, last_commanded_distance, cycle>>


-----------------------------------------------------------------------------
(* ShuttingDown and Terminated *)

\* the shutdown step that raises in one call of shutdown(), if any
ShutdownFaults == {"none", "save_lens", "mocap_close", "close_port", "disconnect",
                   "socket_close"}

\* the steps of a shutdown() call in order, each with guarded = it stands in a
\* try/except of its own: the log of the steps begun, ok = the step returned.
\* A step that raises outside a try ends the call.
RECURSIVE RunSteps(_, _)
RunSteps(steps, fault) ==
    IF steps = <<>> THEN <<>>
    ELSE IF Head(steps).step # fault
    THEN <<[step |-> Head(steps).step, ok |-> TRUE]>> \o RunSteps(Tail(steps), fault)
    ELSE <<[step |-> fault, ok |-> FALSE]>>
         \o (IF Head(steps).guarded THEN RunSteps(Tail(steps), fault) ELSE <<>>)

\* step was begun and returned
Done(log, step) == \E i \in DOMAIN log : log[i] = [step |-> step, ok |-> TRUE]

\* step was begun
Begun(log, step) == \E i \in DOMAIN log : log[i].step = step

\* DartTracker.shutdown: save the lens positions, close the mocap connection,
\* the actuator port, the lens
DartTracker_shutdown_steps(th, fault) ==
    RunSteps(
        (IF th = "connected" THEN <<[step |-> "save_lens", guarded |-> TRUE]>> ELSE <<>>)
        \o <<[step |-> "mocap_close", guarded |-> TRUE],
             [step |-> "close_port", guarded |-> FALSE]>>
        \o (IF th # None THEN <<[step |-> "disconnect", guarded |-> FALSE]>> ELSE <<>>),
        fault)

DartTracker_shutdown ==
    \E fault \in (IF env_faults THEN ShutdownFaults ELSE {"none"}) :
       \E log \in {DartTracker_shutdown_steps(theia, fault)} :
          /\ shutdown_log' = log
          /\ mocap_streamer' = IF Done(log, "mocap_close") THEN "closed" ELSE mocap_streamer
          /\ dyna_closed' = IF Done(log, "close_port") THEN dyna_closed + 1 ELSE dyna_closed
          /\ theia' = IF Done(log, "disconnect") THEN "disconnected" ELSE theia
          /\ UNCHANGED <<visual_terminate, visual_process, udp_socket, udp_buffer>>

\* a stop of the subprocess that force-terminates it without looking
VisualStopSteps_terminate_always(alive, graceful) ==
    <<[step |-> "terminate_event.set", guarded |-> FALSE],
      [step |-> "join(5.0)", guarded |-> FALSE],
      [step |-> "terminate", guarded |-> FALSE],
      [step |-> "join(2.0)", guarded |-> FALSE]>>

\* VisualDartTracker.shutdown, the stop of the vision subprocess. alive:
\* is_alive() before the first join; graceful: the subprocess ends within
\* the 5 s of the first join
VisualStopSteps(alive, graceful) ==
    <<[step |-> "terminate_event.set", guarded |-> FALSE]>>
    \o (IF alive THEN <<[step |-> "join(5.0)", guarded |-> FALSE]>> ELSE <<>>)
    \o (IF alive /\ ~graceful
        THEN <<[step |-> "terminate", guarded |-> FALSE],
               [step |-> "join(2.0)", guarded |-> FALSE]>>
        ELSE <<>>)

\* VisualDartTracker.shutdown: stop the vision subprocess, close the socket,
\* save the lens positions, close the actuator port, the lens
VisualDartTracker_shutdown_steps(th, alive, graceful, fault) ==
    RunSteps(
        VisualStopSteps(alive, graceful)
        \o <<[step |-> "socket_close", guarded |-> TRUE]>>
        \o (IF th = "connected" THEN <<[step |-> "save_lens", guarded |-> TRUE]>> ELSE <<>>)
        \o <<[step |-> "close_port", guarded |-> TRUE]>>
        \o (IF th # None THEN <<[step |-> "disconnect", guarded |-> TRUE]>> ELSE <<>>),
        fault)

VisualDartTracker_shutdown ==
    \E fault \in (IF env_faults THEN ShutdownFaults ELSE {"none"}), graceful \in BOOLEAN :
       \E log \in {VisualDartTracker_shutdown_steps(theia, visual_process = "alive",
                                                    graceful, fault)} :
          /\ shutdown_log' = log
          /\ visual_terminate' = TRUE
          /\ visual_process' = IF visual_process # "alive" THEN visual_process
                                ELSE IF graceful THEN "exited" ELSE "killed"
          /\ udp_socket' = IF Done(log, "socket_close") THEN "closed" ELSE udp_socket
          /\ udp_buffer' = IF Done(log, "socket_close") THEN <<>> ELSE udp_buffer
          /\ dyna_closed' = IF Done(log, "close_port") THEN dyna_closed + 1 ELSE dyna_closed
          /\ theia' = IF Done(log, "disconnect") THEN "disconnected" ELSE theia
          /\ UNCHANGED mocap_streamer

\* cleanup(), first part: if tracker: tracker.shutdown()
cleanup_shutdown ==
    IF tracker = None
    THEN UNCHANGED <<shutdown_calls, shutdown_log, mocap_streamer, dyna_closed, theia,
                     visual_terminate, visual_process, udp_socket, udp_buffer>>
    ELSE /\ shutdown_calls' = shutdown_calls + 1
         /\ IF tracker = "DartTracker" THEN DartTracker_shutdown
                                       ELSE VisualDartTracker_shutdown

\* the finally clause of dart_track enters cleanup()
cleanup ==
    /\ pc = "cleanup"
    /\ cleanup_shutdown
    /\ pc' = "drain"
    /\ UNCHANGED <<supervisor, test_server, adapter, bridge, inversions, env_faults, sent, frame_counter, config, lens, terminate_event,
                   tracker, raised, coefficients, dist, counter, data_queue,
                   dyna_opened, atexit_registered, last_commanded_distance, cycle>>

\* a drain whose caller never unregisters cleanup from atexit
cleanup_drain_keeps_atexit ==
    /\ pc = "drain"
    /\ IF data_queue # <<>>
       THEN data_queue' = Tail(data_queue) /\ pc' = "drain"
       ELSE data_queue' = data_queue /\ pc' = "done"
    /\ UNCHANGED <<supervisor, test_server, adapter, bridge, inversions, env_faults, shutdown_log, sent, frame_counter, config, lens,
                   terminate_event, tracker, raised, theia, coefficients, dist,
                   counter, udp_buffer, udp_socket, visual_process, visual_terminate,
                   mocap_streamer, dyna_opened, dyna_closed, shutdown_calls,
                   atexit_registered, last_commanded_distance, cycle>>

\* a cleanup that returns without emptying the queue
cleanup_drain_returns_early ==
    /\ pc = "drain"
    /\ data_queue' = data_queue
    /\ pc' = "done"
    /\ UNCHANGED <<supervisor, test_server, adapter, bridge, inversions, atexit_registered, env_faults, shutdown_log, sent, frame_counter,
                   config, lens, terminate_event, tracker, raised, theia, coefficients,
                   dist, counter, udp_buffer, udp_socket, visual_process,
                   visual_terminate, mocap_streamer, dyna_opened, dyna_closed,
                   shutdown_calls, last_commanded_distance, cycle>>

\* cleanup(), second part: one turn of while not data_queue.empty(): get_nowait();
\* when the queue is empty cleanup returns and the finally clause unregisters it
\* if 'initial_config_manager' in locals()
cleanup_drain ==
    /\ pc = "drain"
    /\ IF data_queue # <<>>
       THEN data_queue' = Tail(data_queue) /\ pc' = "drain"
                                          /\ UNCHANGED atexit_registered
       ELSE data_queue' = data_queue /\ pc' = "done"
                                    /\ atexit_registered' = (atexit_registered /\ ~config.readable)
    /\ UNCHANGED <<supervisor, test_server, adapter, bridge, inversions, env_faults, shutdown_log, sent, frame_counter, config, lens,
                   terminate_event, tracker, raised, theia, coefficients, dist,
                   counter, udp_buffer, udp_socket, visual_process, visual_terminate,
                   mocap_streamer, dyna_opened, dyna_closed, shutdown_calls,
                   last_commanded_distance, cycle>>

\* the process leaves dart_track and exits: a cleanup still registered with
\* atexit runs once more
process_exit ==
    /\ pc = "done"
    /\ pc' = "exited"
    /\ IF atexit_registered
       THEN cleanup_shutdown /\ data_queue' = <<>>
       ELSE UNCHANGED <<shutdown_calls, shutdown_log, mocap_streamer, dyna_closed, theia,
                        visual_terminate, visual_process, udp_socket, udp_buffer,
                        data_queue>>
    /\ UNCHANGED <<supervisor, test_server, adapter, bridge, inversions, env_faults, sent, frame_counter, config, lens, terminate_event,
                   tracker, raised, coefficients, dist, counter, dyna_opened,
                   atexit_registered, last_commanded_distance, cycle>>

-----------------------------------------------------------------------------
(* Environment *)

\* the owner of terminate_event sets it
set_terminate ==
    /\ ~terminate_event
    /\ terminate_event' = TRUE
    /\ UNCHANGED <<supervisor, test_server, adapter, bridge, inversions, env_faults, shutdown_log, sent, frame_counter, config, lens, pc,
                   tracker, raised, theia, coefficients, dist, counter, data_queue,
                   udp_buffer, udp_socket, visual_process, visual_terminate,
                   mocap_streamer, dyna_opened, dyna_closed, shutdown_calls,
                   atexit_registered, last_commanded_distance, cycle>>

\* the consumer of the telemetry queue takes one sample
consumer_get ==
    /\ data_queue # <<>>
    /\ data_queue' = Tail(data_queue)
    /\ UNCHANGED <<supervisor, test_server, adapter, bridge, inversions, env_faults, shutdown_log, sent, frame_counter, config, lens, pc,
                   terminate_event, tracker, raised, theia, coefficients, dist,
                   counter, udp_buffer, udp_socket, visual_process, visual_terminate,
                   mocap_streamer, dyna_opened, dyna_closed, shutdown_calls,
                   atexit_registered, last_commanded_distance, cycle>>

-----------------------------------------------------------------------------

Next ==
    \/ dart_track_init
    \/ loop_test
    \/ DartTracker_track
    \/ VisualDartTracker_track
    \/ udp_datagram_arrives
    \/ cleanup
    \/ cleanup_drain
    \/ process_exit
    \/ set_terminate
    \/ consumer_get

\* runs in which every device call returns and the datagrams that arrive
\* are a producer's envelopes or lack point_3d
NominalInit == Init /\ ~env_faults /\ config.rotation_matrix = IdentityMatrix

Spec == NominalInit /\ [][Next]_vars

\* runs in which device calls may raise and any datagram may arrive
FaultInit ==
    /\ Init
    /\ env_faults
    /\ config.readable
    /\ config.mocap = [system |-> "qualisys", ip |-> TRUE, port |-> FALSE]
    /\ config.calibration \in {CalibrationKeys, {}}
    /\ config.dynamixel_port \in {"port", "missing"}
    /\ config.rotation_matrix = SingularMatrix => config.calibration = CalibrationKeys
    /\ lens.connects => lens.coefficients = <<-30000, 40000>>

FaultSpec == FaultInit /\ [][Next]_vars

\* the vision-mode system with its subprocess: a readable configuration with
\* mode visual and complete calibration data
VisionInit ==
    /\ Init
    /\ config.readable
    /\ ~env_faults
    /\ config.mode = "visual"
    /\ config.calibration = CalibrationKeys
    /\ config.rotation_matrix = IdentityMatrix
    /\ config.mocap = [system |-> "qualisys", ip |-> TRUE, port |-> FALSE]

VisionNext ==
    \/ dart_track_init
    \/ loop_test
    \/ VisualDartTracker_track
    \/ visual_track_frame
    \/ visual_track_returns
    \/ udp_datagram_arrives
    \/ cleanup
    \/ cleanup_drain
    \/ process_exit
    \/ set_terminate
    \/ consumer_get

VisionSpec == VisionInit /\ [][VisionNext]_vars

\* the orchestrator's process is scheduled; its environment need not act
Fairness ==
    /\ WF_vars(dart_track_init)
    /\ WF_vars(loop_test)
    /\ WF_vars(DartTracker_track)
    /\ WF_vars(VisualDartTracker_track)
    /\ WF_vars(cleanup)
    /\ WF_vars(cleanup_drain)
    /\ WF_vars(process_exit)

\* the runs checked for liveness: one valid mocap source, a present or absent
\* calibration and dynamixel_port, a lens that is absent or calibrated
LiveInit ==
    /\ Init
    /\ ~env_faults
    /\ config.readable
    /\ config.rotation_matrix = IdentityMatrix
    /\ config.mocap = [system |-> "qualisys", ip |-> TRUE, port |-> FALSE]
    /\ config.calibration \in {CalibrationKeys, {}}
    /\ config.dynamixel_port \in {"port", "missing"}
    /\ lens.connects => lens.coefficients = <<-30000, 40000>>

FairSpec == LiveInit /\ [][Next]_vars /\ Fairness

-----------------------------------------------------------------------------
(* The orchestrator's phases *)

Initializing == pc = "init"

Running == pc \in {"check", "track"}

ShuttingDown == pc \in {"cleanup", "drain"}

Terminated == pc \in {"done", "exited"}

PhaseRank ==
    CASE Initializing -> 1 [] Running -> 2 [] ShuttingDown -> 3 [] Terminated -> 4

\* a step that is one call of tracker.track()
TrackCall == pc = "track" /\ pc' # "track"

\* track() is blocked in recvfrom on an empty socket
BlockedInRecv == pc = "track" /\ tracker = "VisualDartTracker" /\ udp_buffer = <<>>

-----------------------------------------------------------------------------
(* Claims *)

\* C1: dart_track never moves backwards along Initializing -> Running ->
\* ShuttingDown -> Terminated (Running is left out when construction fails);
\* wherever the loop stands the tracker is constructed and shutdown() has not
\* begun, every track() call is made there, and shutdown() is called at most
\* once per run.
C1_PhaseOrder ==
    /\ [][ /\ PhaseRank' >= PhaseRank
           /\ PhaseRank' <= PhaseRank + 1 \/ (Initializing /\ ShuttingDown')
           /\ TrackCall => (Running /\ tracker # None /\ shutdown_calls = 0) ]_vars
    /\ [](Running => (tracker # None /\ shutdown_calls = 0))
    /\ [](shutdown_calls <= 1)
    /\ [](cycle.outcome # "none" => tracker # None)

\* C1 witness: a run went through all four phases: track() ran, shutdown()
\* was called once, the process has left dart_track
C1_Witness ==
    pc = "exited" /\ counter > 0 /\ shutdown_calls = 1 /\ raised = "none"

\* C2 as stated: whenever terminate_event is set, Terminated is reached, also
\* when no vision datagram arrives any more
C2_Original == terminate_event ~> Terminated

\* C2 amended: once terminate_event is set, Terminated is reached from every
\* state in which track() is not blocked in the vision socket's recvfrom, in
\* mocap mode and in vision mode (a blocked track() goes on when a datagram
\* arrives)
C2_TerminationResponsive == (terminate_event /\ ~BlockedInRecv) ~> Terminated

\* C2 witness: a vision-mode run whose loop was left through terminate_event
\* and whose cleanup has returned
C2_Witness ==
    /\ pc = "done" /\ terminate_event /\ tracker = "VisualDartTracker"
    /\ raised = "none" /\ counter > 0

\* the configuration errors C3 lists
CalibrationMissing(c) == c.calibration # CalibrationKeys

DynamixelPortMissing(c) == c.dynamixel_port # "port"

MocapSystemUnknown(c) == c.mocap.system \notin {"qualisys", "vicon"}

MocapIpMissing(c) == ~c.mocap.ip

\* initialization raised and the loop was never entered
NeverRan ==
    /\ ~Running
    /\ tracker = None
    /\ cycle = NoCycle
    /\ counter = 0
    /\ ~Initializing => raised # "none"

\* C3 as stated: each listed configuration error keeps the run out of Running
\* in either mode
C3_Original ==
    (config.readable /\ (\/ CalibrationMissing(config) \/ DynamixelPortMissing(config)
                         \/ MocapSystemUnknown(config) \/ MocapIpMissing(config)))
    => NeverRan

\* C3 amended: missing calibration data or a missing dynamixel_port in either
\* mode, and an unknown mocap system or a missing mocap IP in mocap mode, make
\* initialization raise; the run never enters Running and track() is never
\* called
C3_FatalConfigNeverRuns ==
    (config.readable /\ (\/ CalibrationMissing(config) \/ DynamixelPortMissing(config)
                         \/ (config.mode = "mocap" /\ MocapSystemUnknown(config))
                         \/ (config.mode = "mocap" /\ MocapIpMissing(config))))
    => NeverRan

\* C3 witness: a vision-mode run without dynamixel_port has ended with the
\* error raised
C3_Witness ==
    /\ config.mode = "visual" /\ config.calibration = CalibrationKeys
    /\ config.dynamixel_port = "empty"
    /\ pc = "exited" /\ raised = "ValueError: dynamixel_port"

\* C4: a track() call that finds the telemetry queue at capacity is not held
\* up by it; it leaves the queue as it was, increments the counter and returns
\* to the loop test, in both trackers
C4_FullQueueDropsNewest ==
    /\ [][ (TrackCall /\ Len(data_queue) = QueueCap /\ cycle'.outcome = "completed")
           => (data_queue' = data_queue /\ counter' = counter + 1 /\ pc' = "check") ]_vars
    /\ []( (pc = "track" /\ Len(data_queue) = QueueCap)
           => /\ tracker = "DartTracker" => ENABLED DartTracker_track
              /\ (tracker = "VisualDartTracker" /\ udp_buffer # <<>>)
                     => ENABLED VisualDartTracker_track )

\* C4 witness: a completed mocap cycle whose sample is not in the full queue
C4_Witness ==
    /\ tracker = "DartTracker" /\ pc = "check" /\ cycle.outcome = "completed"
    /\ Len(data_queue) = QueueCap
    /\ data_queue[QueueCap] # cycle.sample
    /\ counter = 2

FocusThreshold ==
    IF tracker = "VisualDartTracker" THEN VisualFocusThreshold ELSE MocapFocusThreshold

\* C5: a track() call moves the focus (move_axis on axis B) only if the
\* distance differs from the distance at the most recent move by more than
\* the mode's threshold; of two consecutive cycles with the same distance the
\* second moves nothing
C5_FocusHysteresis ==
    [][ TrackCall =>
          /\ cycle'.focus_move # -1
                => Abs(cycle'.distance - last_commanded_distance) > FocusThreshold
          /\ (cycle.outcome = "completed" /\ cycle'.outcome = "completed"
              /\ cycle'.distance = cycle.distance)
                => cycle'.focus_move = -1 ]_vars

\* C5 witness: the second of two cycles at the distance of the last move
\* issued no move
C5_Witness ==
    /\ tracker = "DartTracker" /\ counter = 2 /\ cycle.outcome = "completed"
    /\ cycle.focus_move = -1
    /\ last_commanded_distance = cycle.distance /\ cycle.distance > 0

\* C6 as stated: with the lens driver unavailable (self.theia is None) no
\* track() call of the mocap tracker raises, and every call that gets past the
\* lost-target test moves no focus, commands the actuator (set_sync_pos) and
\* pushes telemetry (put_nowait)
C6_LensUnavailablePursues ==
    (tracker = "DartTracker" /\ theia = None)
    => /\ raised = "none"
       /\ cycle.outcome \notin {"none", "skipped"}
             => /\ cycle.focus_move = -1
                /\ \E i \in DOMAIN cycle.calls : cycle.calls[i] = "set_sync_pos"
                /\ \E i \in DOMAIN cycle.calls : cycle.calls[i] = "put_nowait"

\* C7 as stated: while self.coefficients is None no cycle sends a focus move
\* to the lens driver
C7_NoCoefficientsNoFocusMove ==
    coefficients = NoCoefficients => cycle.focus_move = -1

\* distances (mm) at which distance_to_steps is evaluated: 0, below and above
\* the calibrated range, 100 m
TestDistances == {0, 50, 1000, 1100, 2000, 100000}

CallIndex(calls, op) == { i \in DOMAIN calls : calls[i] = op }

\* C9: in fusion mode a cycle with a measurement calls predict, update,
\* adapt_Q once each in that order; a cycle with the target lost calls predict
\* and neither update nor adapt_Q; no update or adapt_Q comes before the
\* cycle's predict
C9_EstimatorOrder ==
    (tracker = "DartTracker" /\ config.use_kalman /\ cycle.outcome # "none")
    => LET predict == CallIndex(cycle.calls, "predict")
           update == CallIndex(cycle.calls, "update")
           adapt_Q == CallIndex(cycle.calls, "adapt_Q")
       IN  /\ Cardinality(predict) = 1
           /\ cycle.lost => update = {} /\ adapt_Q = {}
           /\ ~cycle.lost =>
                 /\ Cardinality(update) = 1 /\ Cardinality(adapt_Q) = 1
                 /\ \A i \in predict, j \in update, k \in adapt_Q : i < j /\ j < k

\* C9 witness: the second completed cycle of a fusion run found the target
\* lost and called predict without update
C9_Witness ==
    /\ tracker = "DartTracker" /\ config.use_kalman
    /\ counter = 2 /\ cycle.lost /\ cycle.outcome = "completed"
    /\ CallIndex(cycle.calls, "predict") # {}
    /\ CallIndex(cycle.calls, "update") = {}

\* C10: in raw mode (use_kalman false) a track() call that finds the target
\* lost returns at once: no estimator call, no focus move, no set_sync_pos, no
\* sample, and self.dist, self.counter and the telemetry queue stay as they were
C10_LostCycleSkipped ==
    [][ (TrackCall /\ tracker = "DartTracker" /\ ~config.use_kalman /\ cycle'.lost)
        => /\ cycle'.outcome = "skipped"
           /\ cycle'.calls = <<>>
           /\ cycle'.focus_move = -1
           /\ cycle'.sync_pos = <<>>
           /\ cycle'.sample = <<>>
           /\ dist' = dist
           /\ counter' = counter
           /\ data_queue' = data_queue
           /\ raised' = raised ]_vars

\* C10 witness: a raw-mode run that skipped a lost cycle after a completed
\* one that had moved the focus
C10_Witness ==
    /\ tracker = "DartTracker" /\ ~config.use_kalman
    /\ cycle.outcome = "skipped" /\ cycle.lost
    /\ counter > 0 /\ dist > 0 /\ pc = "check"

\* the datagram a vision-mode track() call is about to receive
ReceivedPacket == Head(udp_buffer)

\* vision-mode track() calls
VisualTrackCall == TrackCall /\ tracker = "VisualDartTracker" /\ udp_buffer # <<>>

\* an envelope as visual_track builds it: JSON with timestamp and a 3-element
\* point_3d
CompleteEnvelope(packet) ==
    packet.json /\ packet.has_point /\ packet.timestamp /\ Len(packet.point_3d) >= 3

\* C11: a vision-mode track() call that receives a datagram that is not JSON
\* or has no point_3d returns without a sample, a focus move or an exception,
\* and the loop goes on; the call after a dropped datagram that receives a
\* complete envelope completes, counts the cycle and pushes its sample when
\* the queue has room
C11_MalformedPacketDropped ==
    [][ VisualTrackCall =>
          /\ (~ReceivedPacket.json \/ ~ReceivedPacket.has_point)
                => /\ cycle'.outcome = "skipped"
                   /\ cycle'.focus_move = -1 /\ cycle'.sample = <<>>
                   /\ data_queue' = data_queue /\ dist' = dist /\ counter' = counter
                   /\ raised' = "none" /\ pc' = "check"
          /\ (cycle.outcome = "skipped" /\ CompleteEnvelope(ReceivedPacket))
                => /\ cycle'.outcome = "completed"
                   /\ cycle'.sample[1] = ReceivedPacket.point_3d
                   /\ counter' = counter + 1
                   /\ Len(data_queue) < QueueCap
                         => data_queue' = Append(data_queue, cycle'.sample)
                   /\ raised' = "none" /\ pc' = "check" ]_vars

\* C11 witness: the sample of a complete envelope has been pushed by the call
\* that followed a dropped datagram, and the next call is under way
C11_Witness ==
    /\ tracker = "VisualDartTracker" /\ pc = "track" /\ raised = "none"
    /\ cycle.outcome = "skipped" /\ cycle.calls = <<"recvfrom">>
    /\ udp_buffer # <<>> /\ CompleteEnvelope(ReceivedPacket)
    /\ Len(data_queue) < QueueCap

\* C12 as stated: a vision-mode track() call that receives an envelope without
\* timestamp, or with a point_3d of fewer than 3 elements, discards it: no
\* sample, no counted cycle
C12_EnvelopeValidated ==
    [][ (VisualTrackCall /\ ~CompleteEnvelope(ReceivedPacket))
        => /\ cycle'.outcome = "skipped"
           /\ data_queue' = data_queue
           /\ counter' = counter ]_vars

\* C13 as stated: for every frame pair visual_track has processed, an envelope
\* with that frame's frame_id has been sent to each of the three ports
\* VisualDartTracker passes
C13_EnvelopePerFramePerPort ==
    \A frame_id \in 1..frame_counter :
        \A i \in DOMAIN udp_ports.ports : <<udp_ports.ports[i], frame_id>> \in sent

\* the position of the first step named step in a shutdown log, 0 if none
StepIndex(log, step) ==
    IF Begun(log, step) THEN CHOOSE i \in DOMAIN log :
                                 log[i].step = step /\ \A j \in 1..(i - 1) : log[j].step # step
    ELSE 0

\* C14: VisualDartTracker.shutdown sets the subprocess's own event first and
\* joins it only afterwards; it calls terminate() and the 2 s join exactly when
\* the subprocess was alive and outlived the 5 s join, in that order; and the
\* subprocess's event is not set while the orchestrator is Running
C14_StopEscalation ==
    /\ Running => ~visual_terminate
    /\ (tracker = "VisualDartTracker" /\ shutdown_calls > 0)
       => /\ visual_terminate
          /\ StepIndex(shutdown_log, "terminate_event.set") = 1
          /\ Begun(shutdown_log, "terminate") <=> visual_process = "killed"
          /\ Begun(shutdown_log, "terminate")
                => /\ StepIndex(shutdown_log, "join(5.0)") = 2
                   /\ StepIndex(shutdown_log, "terminate") = 3
                   /\ StepIndex(shutdown_log, "join(2.0)") = 4
          /\ ~Begun(shutdown_log, "terminate") => ~Begun(shutdown_log, "join(2.0)")
          /\ Begun(shutdown_log, "join(5.0)") => StepIndex(shutdown_log, "join(5.0)") = 2

\* C14 witness: a shutdown that had to force-terminate the subprocess after a
\* run with completed cycles
C14_Witness ==
    /\ tracker = "VisualDartTracker" /\ shutdown_calls = 1 /\ counter > 0
    /\ visual_process = "killed"
    /\ StepIndex(shutdown_log, "terminate") = 3

\* C15 as stated: whichever single step of shutdown() raises, every step of
\* the tracker's shutdown is still begun: the mocap close (mocap tracker), the
\* socket close (vision tracker), the actuator port close and, with a lens
\* driver, the lens disconnect
C15_ShutdownStepsIndependent ==
    (tracker # None /\ shutdown_calls > 0)
    => /\ tracker = "DartTracker" => Begun(shutdown_log, "mocap_close")
       /\ tracker = "VisualDartTracker" => Begun(shutdown_log, "socket_close")
       /\ Begun(shutdown_log, "close_port")
       /\ theia # None => Begun(shutdown_log, "disconnect")

\* the most recent shutdown() call ended with an exception
ShutdownRaised ==
    /\ shutdown_log # <<>>
    /\ ~shutdown_log[Len(shutdown_log)].ok
    /\ tracker = "DartTracker"
    /\ shutdown_log[Len(shutdown_log)].step \in {"close_port", "disconnect"}

\* C16: once cleanup has returned the telemetry queue is empty, whether or not
\* tracker.shutdown() raised; and the drain loop ends: while cleanup drains,
\* its next turn is always possible, every turn removes a sample or returns,
\* and nothing puts a sample in
C16_QueueDrained ==
    /\ [](Terminated => data_queue = <<>>)
    /\ [](pc = "drain" => ENABLED cleanup_drain)
    /\ [][cleanup_drain => (pc' = "done" \/ Len(data_queue') < Len(data_queue))]_vars
    /\ [][pc = "drain" => Len(data_queue') <= Len(data_queue)]_vars

\* C16 witness: cleanup has returned after a shutdown() that raised, in a run
\* that pushed samples
C16_Witness ==
    /\ pc = "done" /\ ShutdownRaised /\ counter > 0 /\ data_queue = <<>>

\* the track() call of this step met a transient fault: an actuator call
\* raised, the telemetry queue was full, or the datagram did not parse
TransientFault ==
    \/ /\ cycle'.outcome = "raised"
       /\ cycle'.calls # <<>>
       /\ cycle'.calls[Len(cycle'.calls)] \in {"set_sync_pos", "get_sync_pos"}
    \/ cycle'.outcome = "completed" /\ Len(data_queue) = QueueCap
    \/ tracker = "VisualDartTracker" /\ ~PacketParses(ReceivedPacket)

\* C17 as stated: a track() call that meets a transient fault returns to the
\* loop test without an exception reaching dart_track, so that track() is
\* called again while terminate_event is not set
C17_TransientFaultKeepsLoop ==
    [][ (TrackCall /\ TransientFault) => (pc' = "check" /\ raised' = "none") ]_vars

\* the operating band [motor_mid_pos - 22.5, motor_mid_pos + 22.5]
InBand(angle) ==
    DefaultMirrorMid - HalfBand <= angle /\ angle <= DefaultMirrorMid + HalfBand

\* C18 as stated: the pan and tilt angles of every actuator command and of
\* every telemetry sample lie in the operating band
C18_AnglesInBand ==
    /\ cycle.sync_pos # <<>> => InBand(cycle.sync_pos[1]) /\ InBand(cycle.sync_pos[2])
    /\ cycle.sample # <<>> => InBand(cycle.sample[2]) /\ InBand(cycle.sample[3])

\* geometric angles (centidegrees) of the remap's domain [45, -45]
TestAngles == {-4500, -2250, -1001, -1000, -2, 0, 2, 1000, 1001, 2250, 4500}

SingularCalibration ==
    /\ config.readable
    /\ config.calibration = CalibrationKeys
    /\ Singular(config.rotation_matrix)

\* C20 as stated: with a singular rotation matrix the constructor fails, so
\* no tracker exists and no cycle (focus move, actuator command or telemetry
\* sample) is ever executed
C20_SingularMatrixNeverRuns ==
    SingularCalibration => tracker = None /\ cycle = NoCycle /\ counter = 0

\* C21 as stated: no call of track() inverts the rotation matrix, so the
\* number of inversions of a run does not grow with its number of cycles
C21_InversionOnceAtLoad ==
    [][ TrackCall => inversions' = inversions ]_vars

\* C27: every fusion cycle calls update_F once, before its predict, and
\* predict_latency once, after predict (and after update and adapt_Q when a
\* measurement was consumed); no update follows predict_latency; this holds
\* with a measurement and with the target lost
C27_LatencyCompensation ==
    (tracker = "DartTracker" /\ config.use_kalman /\ cycle.outcome # "none")
    => LET update_F == CallIndex(cycle.calls, "update_F")
           predict == CallIndex(cycle.calls, "predict")
           filtering == CallIndex(cycle.calls, "predict")
                        \cup CallIndex(cycle.calls, "update")
                        \cup CallIndex(cycle.calls, "adapt_Q")
           predict_latency == CallIndex(cycle.calls, "predict_latency")
       IN  /\ Cardinality(update_F) = 1
           /\ Cardinality(predict_latency) = 1
           /\ \A i \in update_F, j \in predict : i < j
           /\ \A j \in filtering, k \in predict_latency : j < k
           /\ cycle.calls[1] = "update_F"

\* C27 witness: a fusion cycle that found the target lost has applied the
\* latency compensation right after its predict
C27_Witness ==
    /\ tracker = "DartTracker" /\ config.use_kalman /\ cycle.lost
    /\ cycle.outcome # "none"
    /\ \E k \in DOMAIN cycle.calls :
          /\ k > 1
          /\ cycle.calls[k] = "predict_latency"
          /\ cycle.calls[k - 1] = "predict"

\* C28 as stated: a completed cycle, in mocap and in vision mode, has issued
\* one set_sync_pos carrying the sample's pan_angle and tilt_angle, then read
\* the encoders, and only then pushed the sample
C28_ActuateBeforeTelemetry ==
    cycle.outcome = "completed"
    => LET set_sync_pos == CallIndex(cycle.calls, "set_sync_pos")
           get_sync_pos == CallIndex(cycle.calls, "get_sync_pos")
           put == CallIndex(cycle.calls, "put_nowait")
       IN  /\ Cardinality(set_sync_pos) = 1
           /\ Cardinality(get_sync_pos) = 1
           /\ Cardinality(put) = 1
           /\ \A i \in set_sync_pos, j \in get_sync_pos, k \in put : i < j /\ j < k
           /\ cycle.sync_pos = <<cycle.sample[2], cycle.sample[3]>>

-----------------------------------------------------------------------------
(* WebSocket bridge (server/websocket_bridge.py)                            *)
(* The UDP listener thread, the broadcast task and the websocket handlers   *)
(* of one bridge process.  The clock is read in the timeout branch of the   *)
(* listener only; its readings are inputs, in whole seconds, that grow      *)
(* from one timeout to the next.                                            *)

\* self.data_starvation_timeout = 5.0
Bridge_data_starvation_timeout == 5

\* self.startup_grace_period = 15.0
Bridge_startup_grace_period == 15

\* the readings a clock can show one timeout (1.0 s) after it showed t
LaterReadings(readings, t) ==
    IF \E r \in readings : r > t THEN {r \in readings : r > t}
    ELSE {r \in readings : \A q \in readings : q <= r}

\* every variable but bridge
not_bridge == <<pursuit_vars, adapter, test_server, supervisor>>

\* an update that keeps an unread message and discards the new one
update_latest_message_keeps_unread(b, message) ==
    IF b.latest_message # NoMessage
    THEN [b EXCEPT !.packets_dropped = @ + 1, !.new_data_event = TRUE]
    ELSE [b EXCEPT !.latest_message = message, !.new_data_event = TRUE]

\* OptimizedUDPForwarder._update_latest_message, under self._message_lock
update_latest_message(b, message) ==
    [b EXCEPT !.packets_dropped = IF b.latest_message # NoMessage THEN @ + 1 ELSE @,
              !.latest_message = message,
              !.new_data_event = TRUE]

\* a retrieval that resets the event and leaves the message in the slot
get_latest_message_clears_event_only(b) ==
    [b EXCEPT !.new_data_event = FALSE]

\* OptimizedUDPForwarder._get_latest_message, under self._message_lock: the
\* forwarder after the call; the message returned is b.latest_message
get_latest_message(b) ==
    [b EXCEPT !.latest_message = NoMessage, !.new_data_event = FALSE]

\* start_websocket_server: udp_forwarder.start(loop) starts the listener
\* thread and creates the broadcast task, then the server is served
start_websocket_server ==
    /\ bridge.task = "none"
    /\ ~bridge.running
    /\ bridge' = [bridge EXCEPT !.udp_thread = "starting", !.task = "test"]
    /\ UNCHANGED not_bridge

\* start_udp_listener up to the loop: socket, bind, self.running = True; a
\* failing bind goes to the outer except and the finally closes the socket
start_udp_listener_bind ==
    /\ bridge.udp_thread = "starting"
    /\ \E bound \in BOOLEAN :
          bridge' = IF bound
                    THEN [bridge EXCEPT !.udp_socket = "bound", !.running = TRUE,
                                        !.udp_thread = "listening", !.uptime = 0]
                    ELSE [bridge EXCEPT !.udp_socket = "closed",
                                        !.udp_thread = "stopped"]
    /\ UNCHANGED not_bridge

\* start_udp_listener, one turn of the loop in which recvfrom returns a datagram
start_udp_listener_recv ==
    /\ bridge.udp_thread = "listening"
    /\ bridge.running
    /\ bridge.buffer # <<>>
    /\ LET message == Head(bridge.buffer)
           received == [bridge EXCEPT !.buffer = Tail(@),
                                      !.packets_received = @ + 1,
                                      !.last_udp_data_time = TRUE,
                                      !.quiet = 0,
                                      !.last_received = message]
       IN  bridge' = update_latest_message(received, message)
    /\ UNCHANGED not_bridge

\* the starvation test of the except socket.timeout clause, on the clock
\* readings after this timeout
BridgeStarving(b, uptime, quiet) ==
    /\ uptime > Bridge_startup_grace_period
    /\ \/ ~b.last_udp_data_time
       \/ quiet > Bridge_data_starvation_timeout

\* start_udp_listener, one turn of the loop in which recvfrom times out: on
\* starvation the RuntimeError raised inside the except clause leaves the
\* loop, is logged by the outer except, and the finally closes the socket
start_udp_listener_timeout ==
    /\ bridge.udp_thread = "listening"
    /\ bridge.running
    /\ bridge.buffer = <<>>
    /\ \E uptime \in LaterReadings({1, Bridge_startup_grace_period + 1}, bridge.uptime),
          quiet \in LaterReadings({1, Bridge_data_starvation_timeout + 1}, bridge.quiet) :
          bridge' = IF BridgeStarving(bridge, uptime, quiet)
                    THEN [bridge EXCEPT !.uptime = uptime, !.quiet = quiet,
                                        !.udp_thread = "stopped",
                                        !.udp_socket = "closed",
                                        !.starved = TRUE]
                    ELSE [bridge EXCEPT !.uptime = uptime, !.quiet = quiet]
    /\ UNCHANGED not_bridge

\* start_udp_listener: while self.running is false after stop(); the finally
\* closes the socket
start_udp_listener_exit ==
    /\ bridge.udp_thread = "listening"
    /\ ~bridge.running
    /\ bridge' = [bridge EXCEPT !.udp_thread = "stopped", !.udp_socket = "closed",
                                !.buffer = <<>>]
    /\ UNCHANGED not_bridge

\* a datagram is sent to the bridge's port and queued by the bound socket
bridge_datagram_arrives ==
    /\ bridge.arrived < MaxMessages
    /\ bridge.udp_socket = "bound"
    /\ Len(bridge.buffer) < UdpBufCap
    /\ bridge' = [bridge EXCEPT !.arrived = @ + 1,
                                !.buffer = Append(@, bridge.arrived + 1)]
    /\ UNCHANGED not_bridge

\* a datagram is sent to the bridge's port while no socket is bound to it or
\* its buffer is full
bridge_datagram_lost ==
    /\ bridge.arrived < MaxMessages
    /\ bridge.task # "none"
    /\ bridge.udp_socket # "bound" \/ Len(bridge.buffer) >= UdpBufCap
    /\ bridge' = [bridge EXCEPT !.arrived = @ + 1]
    /\ UNCHANGED not_bridge

\* continuous_broadcast_task: while self.running
continuous_broadcast_task_test ==
    /\ bridge.task = "test"
    /\ bridge' = [bridge EXCEPT !.task = IF bridge.running THEN "wait" ELSE "stopped"]
    /\ UNCHANGED not_bridge

\* continuous_broadcast_task: self._new_data_event.wait(1.0) returned False
continuous_broadcast_task_timeout ==
    /\ bridge.task = "wait"
    /\ ~bridge.new_data_event
    /\ bridge' = [bridge EXCEPT !.task = "test"]
    /\ UNCHANGED not_bridge

\* continuous_broadcast_task: the event is set; message = _get_latest_message();
\* if message and self.websocket_clients, _broadcast_to_clients starts on a
\* copy of the client set
continuous_broadcast_task_take ==
    /\ bridge.task = "wait"
    /\ bridge.new_data_event
    /\ LET message == bridge.latest_message
           taken == get_latest_message(bridge)
       IN  bridge' = IF message # NoMessage /\ bridge.websocket_clients # {}
                     THEN [taken EXCEPT !.task = "send", !.message = message,
                                        !.targets = bridge.websocket_clients,
                                        !.pending = bridge.websocket_clients,
                                        !.clients_to_remove = {}]
                     ELSE [taken EXCEPT !.task = "test"]
    /\ UNCHANGED not_bridge

\* a broadcast that drops a client whose send raised but stops at it
broadcast_send_stops_at_failure ==
    /\ bridge.task = "send"
    /\ bridge.pending # {}
    /\ \E client \in bridge.pending, raises \in BOOLEAN :
          /\ bridge.connection[client] # "open" => raises
          /\ bridge' = IF raises
                       THEN [bridge EXCEPT !.pending = {},
                                           !.clients_to_remove = @ \cup {client}]
                       ELSE [bridge EXCEPT !.pending = @ \ {client},
                                           !.delivered[client] = bridge.message]
    /\ UNCHANGED not_bridge

\* _broadcast_to_clients, one turn of the for loop: await client.send(message)
\* succeeds, or raises and the client is noted for removal
broadcast_to_clients_send ==
    /\ bridge.task = "send"
    /\ bridge.pending # {}
    /\ \E client \in bridge.pending, raises \in BOOLEAN :
          /\ bridge.connection[client] # "open" => raises
          /\ bridge' = IF raises
                       THEN [bridge EXCEPT !.pending = @ \ {client},
                                           !.clients_to_remove = @ \cup {client}]
                       ELSE [bridge EXCEPT !.pending = @ \ {client},
                                           !.delivered[client] = bridge.message]
    /\ UNCHANGED not_bridge

\* _broadcast_to_clients after the for loop: remove_client for each noted
\* client; back in continuous_broadcast_task, self.packets_sent += 1
broadcast_to_clients_cleanup ==
    /\ bridge.task = "send"
    /\ bridge.pending = {}
    /\ bridge' = [bridge EXCEPT !.websocket_clients = @ \ bridge.clients_to_remove,
                                !.removed = @ \cup bridge.clients_to_remove,
                                !.clients_to_remove = {},
                                !.packets_sent = @ + 1,
                                !.last_sent = bridge.message,
                                !.message = NoMessage,
                                !.targets = {},
                                !.task = "test"]
    /\ UNCHANGED not_bridge

\* websocket_handler: a browser connects; udp_forwarder.add_client(websocket)
websocket_handler_connect ==
    /\ bridge.task # "none"
    /\ \E client \in Clients :
          /\ bridge.connection[client] = "new"
          /\ bridge' = [bridge EXCEPT !.connection[client] = "open",
                                      !.websocket_clients = @ \cup {client}]
    /\ UNCHANGED not_bridge

\* the connection of a client closes
websocket_closes ==
    /\ \E client \in Clients :
          /\ bridge.connection[client] = "open"
          /\ bridge' = [bridge EXCEPT !.connection[client] = "closed"]
    /\ UNCHANGED not_bridge

\* websocket_handler, finally: udp_forwarder.remove_client(websocket)
websocket_handler_finally ==
    /\ \E client \in bridge.websocket_clients :
          /\ bridge.connection[client] = "closed"
          /\ bridge' = [bridge EXCEPT !.websocket_clients = @ \ {client}]
    /\ UNCHANGED not_bridge

\* start_websocket_server, finally: udp_forwarder.stop(); the coroutine then
\* returns and asyncio.run cancels the broadcast task
OptimizedUDPForwarder_stop ==
    /\ bridge.task \notin {"none", "stopped"}
    /\ bridge' = [bridge EXCEPT !.running = FALSE, !.new_data_event = TRUE,
                                !.stop_called = TRUE,
                                !.task = "stopped", !.message = NoMessage,
                                !.targets = {}, !.pending = {},
                                !.clients_to_remove = {}]
    /\ UNCHANGED not_bridge

\* the pursuit process is not part of the runs of the servers
ServerInit ==
    /\ Init
    /\ config = UnreadableConfig
    /\ lens = [connects |-> FALSE, coefficients |-> <<>>]
    /\ ~env_faults

BridgeNext ==
    \/ start_websocket_server
    \/ start_udp_listener_bind
    \/ start_udp_listener_recv
    \/ start_udp_listener_timeout
    \/ start_udp_listener_exit
    \/ bridge_datagram_arrives
    \/ bridge_datagram_lost
    \/ continuous_broadcast_task_test
    \/ continuous_broadcast_task_timeout
    \/ continuous_broadcast_task_take
    \/ broadcast_to_clients_send
    \/ broadcast_to_clients_cleanup
    \/ websocket_handler_connect
    \/ websocket_closes
    \/ websocket_handler_finally
    \/ OptimizedUDPForwarder_stop

BridgeSpec == ServerInit /\ [][BridgeNext]_vars

-----------------------------------------------------------------------------
(* Claims on the WebSocket bridge *)

\* a step in which the listener's recvfrom returned a datagram
ListenerReceives == bridge'.packets_received = bridge.packets_received + 1

\* a step in which the broadcast task took a message to broadcast
BroadcastTakes == bridge.task = "wait" /\ bridge'.task = "send"

\* C22: latest data wins.  The slot holds one message or none; a datagram
\* received while the slot is full replaces the unread message and adds one
\* to packets_dropped, and no other step changes packets_dropped; the message
\* the broadcast task takes is the most recently received one and is newer
\* than every message already sent; a client is only ever sent a message newer
\* than the ones it was sent before
C22_LatestDataWins ==
    [][ /\ bridge'.latest_message \in Messages \cup {NoMessage}
        /\ ListenerReceives
              => /\ bridge'.latest_message = bridge'.last_received
                 /\ bridge'.last_received = Head(bridge.buffer)
                 /\ bridge'.packets_dropped =
                        bridge.packets_dropped
                        + (IF bridge.latest_message # NoMessage THEN 1 ELSE 0)
        /\ ~ListenerReceives => bridge'.packets_dropped = bridge.packets_dropped
        /\ BroadcastTakes
              => /\ bridge'.message = bridge.last_received
                 /\ bridge'.message > bridge.last_sent
                 /\ bridge'.latest_message = NoMessage
        /\ \A client \in Clients :
              bridge'.delivered[client] # bridge.delivered[client]
              => /\ bridge'.delivered[client] = bridge.message
                 /\ bridge'.delivered[client] > bridge.delivered[client]
                 /\ bridge'.delivered[client] > bridge.last_sent
      ]_vars

\* C22 witness: the first message was overwritten unread by the second, and
\* the second was broadcast to a client
C22_Witness ==
    /\ bridge.packets_dropped = 1
    /\ bridge.last_sent = 2
    /\ \E client \in Clients : bridge.delivered[client] = 2

\* a step that ends a call of _broadcast_to_clients
BroadcastEnds == bridge.task = "send" /\ bridge'.task = "test"

\* C30: when a broadcast ends, every client of its list whose send raised is
\* no longer in websocket_clients and every other client of the list was sent
\* the message; a send that raises does not end the broadcast, and the task
\* goes on to its next loop test; a client removed after a failed send stays
\* out of websocket_clients and is never sent a message again
C30_FailedClientRemoved ==
    [][ /\ BroadcastEnds
              => /\ \A client \in bridge.targets :
                       IF client \in bridge.clients_to_remove
                       THEN client \notin bridge'.websocket_clients
                       ELSE bridge.delivered[client] = bridge.message
                 /\ bridge'.removed = bridge.removed \cup bridge.clients_to_remove
                 /\ bridge'.running = bridge.running
        /\ bridge'.clients_to_remove \ bridge.clients_to_remove # {}
              => bridge'.task = "send"
        /\ \A client \in bridge.removed :
              /\ client \in bridge'.removed
              /\ client \notin bridge'.websocket_clients
              /\ bridge'.delivered[client] = bridge.delivered[client]
      ]_vars

\* C30 witness: the first broadcast found one client's send raising, removed
\* that client and delivered the message to the other one
C30_Witness ==
    /\ bridge.task = "test"
    /\ bridge.packets_sent = 1
    /\ \E failed \in bridge.removed, other \in bridge.websocket_clients :
          /\ bridge.delivered[other] = bridge.last_sent
          /\ bridge.delivered[failed] = NoMessage

\* the threads and the task of the bridge process are scheduled; datagrams,
\* connections and shutdown are up to the environment
BridgeFairSpec ==
    /\ ServerInit
    /\ [][BridgeNext]_vars
    /\ WF_vars(start_websocket_server)
    /\ WF_vars(start_udp_listener_bind)
    /\ WF_vars(start_udp_listener_recv)
    /\ WF_vars(start_udp_listener_timeout)
    /\ WF_vars(start_udp_listener_exit)
    /\ WF_vars(continuous_broadcast_task_test)
    /\ WF_vars(continuous_broadcast_task_timeout)
    /\ WF_vars(continuous_broadcast_task_take)
    /\ WF_vars(broadcast_to_clients_send)
    /\ WF_vars(broadcast_to_clients_cleanup)

\* C23 as stated: after the listener has detected data starvation the bridge
\* recovers: unless the server is shut down, its listener is again receiving
\* on the configured port
C23_BridgeRecovers ==
    (bridge.starved /\ ~bridge.stop_called)
    ~> \/ bridge.udp_thread = "listening" /\ bridge.udp_socket = "bound"
       \/ bridge.stop_called

-----------------------------------------------------------------------------
(* DART adapter (server/udp_dart_adapter.py)                                *)
(* The adapter thread of one adapter process and the datagrams broadcast to *)
(* its port.  Input coordinates are in hundredths of a millimetre, output   *)
(* coordinates in hundredths of a visualization unit (the 2 decimals the    *)
(* code rounds to).                                                         *)

\* self.data_starvation_timeout = 5.0
Adapter_data_starvation_timeout == 5

\* self.startup_grace_period = 10.0
Adapter_startup_grace_period == 10

\* self.coordinate_scale = 0.1, as <<numerator, denominator>>
coordinate_scale == <<1, 10>>

\* every variable but adapter
not_adapter == <<pursuit_vars, bridge, test_server, supervisor>>

\* point_3d values of well-formed envelopes
AdapterPoints == { <<100024, -200000, 3517>>, <<0, 0, 0>> }

\* a datagram by what decoding and json.loads make of it.  point_3d.kind:
\* absent, scalar (a number), list (of numbers); timestamp: absent, number;
\* xyz: the values of the keys x, y, z, or <<>> when they are absent
Datagram(utf8, json, object, kind, value, timestamp, xyz) ==
    [ utf8 |-> utf8, json |-> json, object |-> object,
      point_3d |-> [kind |-> kind, value |-> value],
      timestamp |-> timestamp, xyz |-> xyz ]

\* the datagrams that _parse_visual_tracking_data has to discard
MalformedDatagrams ==
    { \* bytes that are not UTF-8
      Datagram(FALSE, FALSE, FALSE, "absent", <<>>, "absent", <<>>),
      \* text that is not JSON
      Datagram(TRUE, FALSE, FALSE, "absent", <<>>, "absent", <<>>),
      \* JSON that is not an object, e.g. 5
      Datagram(TRUE, TRUE, FALSE, "absent", <<>>, "absent", <<>>),
      \* {"timestamp": t, "point_3d": 5}
      Datagram(TRUE, TRUE, TRUE, "scalar", <<>>, "number", <<>>),
      \* {"timestamp": t, "point_3d": []}
      Datagram(TRUE, TRUE, TRUE, "list", <<>>, "number", <<>>),
      \* {"timestamp": t, "point_3d": [x]}
      Datagram(TRUE, TRUE, TRUE, "list", <<100024>>, "number", <<>>),
      \* {"timestamp": t, "point_3d": [x, y]}
      Datagram(TRUE, TRUE, TRUE, "list", <<100024, -200000>>, "number", <<>>),
      \* {"point_3d": [x, y, z]}
      Datagram(TRUE, TRUE, TRUE, "list", <<100024, -200000, 3517>>, "absent", <<>>),
      \* {"foo": 1}
      Datagram(TRUE, TRUE, TRUE, "absent", <<>>, "absent", <<>>) }

\* the datagrams that can arrive on the adapter's port: well-formed
\* envelopes, a GERF datagram and the malformed ones
AdapterDatagrams ==
    \* {"timestamp": t, "point_3d": [x, y, z], "frame_id": f}
    { Datagram(TRUE, TRUE, TRUE, "list", point, "number", <<>>) :
         point \in AdapterPoints }
    \* {"x": x, "y": y, "z": z}: already in GERF format
    \cup { Datagram(TRUE, TRUE, TRUE, "absent", <<>>, "absent",
                    <<100024, -200000, 3517>>) }
    \cup MalformedDatagrams

\* the return value None of _parse_visual_tracking_data
NoDartData == [position |-> <<>>, source |-> "none", counted |-> FALSE]

\* an exception caught inside _parse_visual_tracking_data: self.parse_errors += 1
ParseError == [position |-> <<>>, source |-> "none", counted |-> TRUE]

\* a parse that takes a two-element point_3d and fills in z = 0
parse_visual_tracking_data_pads_short(data) ==
    IF data.json /\ data.object /\ data.point_3d.kind = "list"
       /\ Len(data.point_3d.value) >= 2
    THEN [ position |-> << -data.point_3d.value[1], -data.point_3d.value[2],
                           IF Len(data.point_3d.value) >= 3
                           THEN data.point_3d.value[3] ELSE 0 >>,
           source |-> "visual_tracking", counted |-> FALSE ]
    ELSE NoDartData

\* DartDataAdapter._parse_visual_tracking_data: position is <<>> for None
parse_visual_tracking_data(data) ==
    IF ~data.utf8 THEN ParseError                \* UnicodeDecodeError
    ELSE IF ~data.json THEN ParseError           \* json.JSONDecodeError
    ELSE IF ~data.object THEN ParseError         \* 'point_3d' in 5: TypeError
    ELSE IF data.point_3d.kind # "absent" /\ data.timestamp # "absent"
    THEN IF data.point_3d.kind = "scalar" THEN ParseError  \* point_3d[0]: TypeError
         ELSE IF Len(data.point_3d.value) < 2 THEN ParseError  \* IndexError
         ELSE IF Len(data.point_3d.value) < 3 THEN NoDartData  \* "Invalid point_3d format"
         ELSE [ position |-> << -data.point_3d.value[1], -data.point_3d.value[2],
                                data.point_3d.value[3] >>,
                source |-> "visual_tracking", counted |-> FALSE ]
    ELSE IF data.xyz # <<>>
    THEN [ position |-> data.xyz, source |-> "gerf_compatible", counted |-> FALSE ]
    ELSE NoDartData                              \* "Unrecognized JSON format"

\* round((v * self.coordinate_scale) + self.coordinate_offset[i], 2) with
\* coordinate_offset = (0, 0, 0)
ScaleCoordinate(v) == RoundDiv(v * coordinate_scale[1], coordinate_scale[2])

\* DartDataAdapter._convert_to_gerf_format followed by the message of
\* _send_to_bridge, which carries seq = self.packets_sent
gerf_message(dart_data, seq) ==
    [ x |-> ScaleCoordinate(dart_data.position[1]),
      y |-> ScaleCoordinate(dart_data.position[2]),
      z |-> ScaleCoordinate(dart_data.position[3]),
      seq |-> seq ]

\* DartDataAdapter.start: sockets, self.running = True, the adapter thread; a
\* failing bind goes to the except, which calls self.stop() and re-raises
DartDataAdapter_start ==
    /\ adapter.adapter_thread = "none"
    /\ ~adapter.stop_called
    /\ \E bound \in BOOLEAN :
          adapter' = IF bound
                     THEN [adapter EXCEPT !.dart_socket = "bound", !.running = TRUE,
                                          !.adapter_thread = "alive"]
                     ELSE [adapter EXCEPT !.dart_socket = "closed",
                                          !.stop_called = TRUE]
    /\ UNCHANGED not_adapter

\* _adapter_loop, one turn in which recvfrom returns a datagram: parse, and
\* unless the result is None convert and send to the bridge.  _send_to_bridge
\* adds one to packets_sent before it builds and sends the message; a sendto
\* that raises is counted in send_errors and nothing reaches the bridge port
adapter_loop_recv ==
    /\ adapter.adapter_thread = "alive"
    /\ adapter.running
    /\ adapter.buffer # <<>>
    /\ \E dart_data \in {parse_visual_tracking_data(Head(adapter.buffer))},
          sent_ok \in (IF env_faults THEN BOOLEAN ELSE {TRUE}) :
          LET received == [adapter EXCEPT !.buffer = Tail(@),
                                          !.packets_received = @ + 1,
                                          !.last_data_time = TRUE,
                                          !.quiet = 0,
                                          !.parse_errors =
                                              IF dart_data.counted THEN @ + 1 ELSE @]
          IN  adapter' =
                 IF dart_data.position = <<>>
                 THEN [received EXCEPT !.log = Append(@, "dropped")]
                 ELSE IF sent_ok
                 THEN [received EXCEPT
                          !.packets_sent = @ + 1,
                          !.forwarded =
                              Append(@, gerf_message(dart_data,
                                                     adapter.packets_sent + 1)),
                          !.log = Append(@, "forwarded")]
                 ELSE [received EXCEPT !.packets_sent = @ + 1,
                                       !.log = Append(@, "send_error")]
    /\ UNCHANGED not_adapter

\* the starvation test of the except socket.timeout clause, on the clock
\* readings after this timeout
AdapterStarving(a, uptime, quiet) ==
    /\ uptime > Adapter_startup_grace_period
    /\ \/ ~a.last_data_time
       \/ quiet > Adapter_data_starvation_timeout

\* _adapter_loop, one turn in which recvfrom times out: on starvation the
\* RuntimeError raised inside the except clause leaves the loop and ends the
\* thread; self.running and the sockets stay as they are
adapter_loop_timeout ==
    /\ adapter.adapter_thread = "alive"
    /\ adapter.running
    /\ adapter.buffer = <<>>
    /\ \E uptime \in LaterReadings({1, Adapter_startup_grace_period + 1}, adapter.uptime),
          quiet \in LaterReadings({1, Adapter_data_starvation_timeout + 1}, adapter.quiet) :
          adapter' = IF AdapterStarving(adapter, uptime, quiet)
                     THEN [adapter EXCEPT !.uptime = uptime, !.quiet = quiet,
                                          !.adapter_thread = "dead",
                                          !.starved = TRUE]
                     ELSE [adapter EXCEPT !.uptime = uptime, !.quiet = quiet]
    /\ UNCHANGED not_adapter

\* _adapter_loop: while self.running is false after stop()
adapter_loop_exit ==
    /\ adapter.adapter_thread = "alive"
    /\ ~adapter.running
    /\ adapter' = [adapter EXCEPT !.adapter_thread = "dead"]
    /\ UNCHANGED not_adapter

\* a datagram is broadcast to the adapter's port and queued by the socket
adapter_datagram_arrives ==
    /\ adapter.arrived < MaxMessages
    /\ adapter.dart_socket = "bound"
    /\ Len(adapter.buffer) < UdpBufCap
    /\ \E data \in AdapterDatagrams :
          adapter' = [adapter EXCEPT !.arrived = @ + 1, !.buffer = Append(@, data)]
    /\ UNCHANGED not_adapter

\* start_dart_adapter, finally (Ctrl+C): adapter.stop() clears self.running
\* and closes the sockets
DartDataAdapter_stop ==
    /\ adapter.adapter_thread # "none"
    /\ ~adapter.stop_called
    /\ adapter' = [adapter EXCEPT !.running = FALSE, !.dart_socket = "closed",
                                  !.buffer = <<>>, !.stop_called = TRUE]
    /\ UNCHANGED not_adapter

AdapterNext ==
    \/ DartDataAdapter_start
    \/ adapter_loop_recv
    \/ adapter_loop_timeout
    \/ adapter_loop_exit
    \/ adapter_datagram_arrives
    \/ DartDataAdapter_stop

AdapterSpec == ServerInit /\ [][AdapterNext]_vars

\* the adapter in an environment in which sendto to the bridge port may raise
AdapterFaultInit ==
    /\ Init
    /\ config = UnreadableConfig
    /\ lens = [connects |-> FALSE, coefficients |-> <<>>]
    /\ env_faults = TRUE

AdapterFaultSpec == AdapterFaultInit /\ [][AdapterNext]_vars

\* the adapter thread is scheduled; datagrams and Ctrl+C are up to the
\* environment
AdapterFairSpec ==
    /\ ServerInit
    /\ [][AdapterNext]_vars
    /\ WF_vars(DartDataAdapter_start)
    /\ WF_vars(adapter_loop_recv)
    /\ WF_vars(adapter_loop_timeout)
    /\ WF_vars(adapter_loop_exit)

-----------------------------------------------------------------------------
(* Claims about the DART adapter                                            *)

\* C29: the adapter's receive loop survives every malformed datagram (bytes
\* that are not UTF-8, invalid JSON, a point_3d that is not a list or has
\* fewer than 3 elements, a missing timestamp, unrecognized keys): the parse
\* returns None, the thread stays alive, nothing is forwarded for that
\* datagram, and a well-formed datagram, whatever came before it, is
\* converted and forwarded to the bridge port.
C29_MalformedDiscarded ==
    [][ (adapter.buffer # <<>>
         /\ adapter'.packets_received = adapter.packets_received + 1) =>
          LET data == Head(adapter.buffer)
              \* the point with x and y negated for an envelope, the x, y, z
              \* values for a GERF datagram
              p == IF data.xyz # <<>> THEN data.xyz
                   ELSE << 0 - data.point_3d.value[1], 0 - data.point_3d.value[2],
                           data.point_3d.value[3] >>
              \* scaled by 0.1 and rounded to 2 decimals
              expected == << RoundDiv(p[1], 10), RoundDiv(p[2], 10),
                             RoundDiv(p[3], 10) >>
          IN  /\ adapter'.adapter_thread = "alive"
              /\ adapter'.running = adapter.running
              /\ data \in MalformedDatagrams =>
                    /\ parse_visual_tracking_data(data).position = <<>>
                    /\ adapter'.forwarded = adapter.forwarded
                    /\ adapter'.packets_sent = adapter.packets_sent
              /\ data \notin MalformedDatagrams =>
                    /\ Len(adapter'.forwarded) = Len(adapter.forwarded) + 1
                    /\ LET m == adapter'.forwarded[Len(adapter'.forwarded)]
                       IN  <<m.x, m.y, m.z>> = expected ]_vars

\* a malformed datagram was dropped and the well-formed datagram after it
\* was forwarded with x and y negated
C29_Witness ==
    /\ adapter.log = <<"dropped", "forwarded">>
    /\ adapter.parse_errors = 1
    /\ adapter.adapter_thread = "alive"
    /\ Len(adapter.forwarded) = 1
    /\ adapter.forwarded[1].x = -10002
    /\ adapter.forwarded[1].z = 352

\* C24: after the adapter has detected data starvation (and has not been
\* shut down) it restarts: its receive loop is alive again, so that a later
\* datagram is parsed and forwarded, or else its running flag is cleared.
C24_AdapterRecovers ==
    (adapter.starved /\ ~adapter.stop_called)
        ~> \/ adapter.adapter_thread = "alive"
           \/ ~adapter.running
           \/ adapter.stop_called

-----------------------------------------------------------------------------
(* UDP test server (server/udp_test_server.py)                              *)
(* The main loop of start_server, the handler threads it starts for one     *)
(* client address, and wall-clock time as the ages, in seconds, of the      *)
(* client's last message and of its last_seen entry.                        *)

\* CLIENT_TIMEOUT = 30  (server/config.py)
CLIENT_TIMEOUT == 30

\* every variable but test_server
not_test_server == <<pursuit_vars, bridge, adapter, supervisor>>

\* cleanup_inactive_clients: the entry is deleted when its last_seen is more
\* than CLIENT_TIMEOUT seconds old
cleanup_inactive_clients(client) ==
    IF client.present /\ client.last_seen_age > CLIENT_TIMEOUT
    THEN NoClient
    ELSE client

\* client_handler, finally: the entry, if there is one, is marked inactive
handler_finally(client) ==
    IF client.present THEN [client EXCEPT !.active = FALSE] ELSE client

\* start_server: socket and bind; an OSError ends the server
start_server_bind ==
    /\ test_server.pc = "init"
    /\ \E bound \in BOOLEAN :
          test_server' = [test_server EXCEPT !.pc = IF bound THEN "cleanup"
                                                    ELSE "stopped"]
    /\ UNCHANGED not_test_server

\* start_server, top of a loop turn: cleanup_inactive_clients()
start_server_cleanup ==
    /\ test_server.pc = "cleanup"
    /\ test_server' = [test_server EXCEPT
                          !.client = cleanup_inactive_clients(@),
                          !.pc = "recv"]
    /\ UNCHANGED not_test_server

\* start_server: recvfrom returns a message of the client; a new entry is
\* made if there is none, a handler thread is started unless the entry's
\* thread is alive, and the entry is marked active and seen now
start_server_recv ==
    /\ test_server.pc = "recv"
    /\ test_server.inbox > 0
    /\ LET c == test_server.client
           alive == c.present /\ c.thread # 0
                    /\ test_server.handlers[c.thread] \in {"check", "send"}
           h == test_server.started + 1
       IN  test_server' =
              IF alive
              THEN [test_server EXCEPT
                       !.inbox = @ - 1, !.pc = "cleanup", !.silent_age = 0,
                       !.client = [c EXCEPT !.active = TRUE, !.last_seen_age = 0]]
              ELSE [test_server EXCEPT
                       !.inbox = @ - 1, !.pc = "cleanup", !.silent_age = 0,
                       !.started = h,
                       !.handlers[h] = "check",
                       !.client = [present |-> TRUE, active |-> TRUE,
                                   thread |-> h, last_seen_age |-> 0]]
    /\ UNCHANGED not_test_server

\* start_server: recvfrom times out after 5 s, continue
start_server_timeout ==
    /\ test_server.pc = "recv"
    /\ test_server.inbox = 0
    /\ test_server' = [test_server EXCEPT !.pc = "cleanup"]
    /\ UNCHANGED not_test_server

\* start_server: KeyboardInterrupt ends the loop; the handler threads are
\* daemon threads and end with the process
start_server_interrupt ==
    /\ test_server.pc \in {"cleanup", "recv"}
    /\ test_server' = [test_server EXCEPT
                          !.pc = "stopped",
                          !.handlers = [h \in 1 .. MaxMessages |->
                                           IF @[h] = "none" THEN "none" ELSE "ended"]]
    /\ UNCHANGED not_test_server

\* client_handler, top of the loop: break unless the address is in CLIENTS
\* and active; the finally clause then marks the entry inactive
client_handler_check ==
    /\ test_server.pc # "stopped"
    /\ \E h \in 1 .. MaxMessages :
          /\ test_server.handlers[h] = "check"
          /\ test_server' =
                IF test_server.client.present /\ test_server.client.active
                THEN [test_server EXCEPT !.handlers[h] = "send"]
                ELSE [test_server EXCEPT !.handlers[h] = "ended",
                                         !.client = handler_finally(@)]
    /\ UNCHANGED not_test_server

\* client_handler, rest of a loop turn: sendto, then last_seen = now if the
\* address is in CLIENTS; a failing sendto breaks out to the finally clause
client_handler_send ==
    /\ test_server.pc # "stopped"
    /\ \E h \in 1 .. MaxMessages, sent_ok \in BOOLEAN :
          /\ test_server.handlers[h] = "send"
          /\ test_server' =
                IF sent_ok
                THEN [test_server EXCEPT
                         !.handlers[h] = "check",
                         !.client = IF @.present
                                    THEN [@ EXCEPT !.last_seen_age = 0] ELSE @]
                ELSE [test_server EXCEPT !.handlers[h] = "ended",
                                         !.client = handler_finally(@)]
    /\ UNCHANGED not_test_server

\* the client sends a message to the server's port
test_client_sends ==
    /\ test_server.pc \in {"cleanup", "recv"}
    /\ test_server.arrived < MaxMessages
    /\ test_server.inbox < UdpBufCap
    /\ test_server' = [test_server EXCEPT !.arrived = @ + 1, !.inbox = @ + 1]
    /\ UNCHANGED not_test_server

\* time passes: the ages grow, last_seen never older than the last message
\* allows only when a handler refreshed it
time_passes ==
    /\ test_server.pc \in {"cleanup", "recv"}
    /\ test_server.started > 0
    /\ \E silent \in {0, 1, CLIENT_TIMEOUT + 1}, seen \in {0, 1, CLIENT_TIMEOUT + 1} :
          /\ silent >= test_server.silent_age
          /\ seen >= test_server.client.last_seen_age
          /\ seen <= silent
          /\ <<silent, seen>> # <<test_server.silent_age,
                                  test_server.client.last_seen_age>>
          /\ test_server' = [test_server EXCEPT
                                !.silent_age = silent,
                                !.client.last_seen_age =
                                    IF test_server.client.present THEN seen ELSE @]
          /\ test_server' # test_server
    /\ UNCHANGED not_test_server

TestServerNext ==
    \/ start_server_bind
    \/ start_server_cleanup
    \/ start_server_recv
    \/ start_server_timeout
    \/ start_server_interrupt
    \/ client_handler_check
    \/ client_handler_send
    \/ test_client_sends
    \/ time_passes

\* the main loop and the handler threads are scheduled and time does not
\* stand still; messages, send failures and Ctrl+C are up to the environment
TestServerFairSpec ==
    /\ ServerInit
    /\ [][TestServerNext]_vars
    /\ WF_vars(time_passes)
    /\ WF_vars(start_server_bind)
    /\ WF_vars(start_server_cleanup)
    /\ WF_vars(start_server_recv)
    /\ WF_vars(start_server_timeout)
    /\ WF_vars(client_handler_check)
    /\ WF_vars(client_handler_send)

-----------------------------------------------------------------------------
(* Claims about the UDP test server                                         *)

\* C25: a client that has sent no message for more than CLIENT_TIMEOUT
\* seconds is eventually removed from CLIENTS (unless it sends again or the
\* server is shut down), so that its handler stops streaming to it.
C25_InactiveClientRemoved ==
    (test_server.client.present /\ test_server.silent_age > CLIENT_TIMEOUT)
        ~> \/ ~test_server.client.present
           \/ test_server.silent_age <= CLIENT_TIMEOUT
           \/ test_server.pc = "stopped"

-----------------------------------------------------------------------------
(* Launchers (main.py start_production_servers, main_test.py start_servers) *)
(* The try body as a list of steps, the monitor loop, the except clauses    *)
(* and the loop of the finally clause; Ctrl+C can arrive between any two    *)
(* steps.                                                                   *)

\* every variable but supervisor
not_supervisor == <<pursuit_vars, bridge, adapter, test_server>>

\* the try body of start_production_servers with USE_DART_ADAPTER = True
ProductionSteps ==
    << [op |-> "Popen", child |-> "DART Adapter"],
       [op |-> "append", child |-> "DART Adapter"],
       [op |-> "update_config", child |-> "none"],
       [op |-> "Popen", child |-> "WebSocket Bridge Server"],
       [op |-> "append", child |-> "WebSocket Bridge Server"],
       [op |-> "monitor", child |-> "none"] >>

\* the try body of start_servers
TestSteps ==
    << [op |-> "update_config", child |-> "none"],
       [op |-> "Popen", child |-> "UDP Test Server"],
       [op |-> "append", child |-> "UDP Test Server"],
       [op |-> "Popen", child |-> "DART Adapter"],
       [op |-> "append", child |-> "DART Adapter"],
       [op |-> "Popen", child |-> "WebSocket Bridge Server"],
       [op |-> "append", child |-> "WebSocket Bridge Server"],
       [op |-> "monitor", child |-> "none"] >>

\* the step the launcher is at
CurrentStep ==
    (IF supervisor.script = "main" THEN ProductionSteps ELSE TestSteps)[supervisor.step]

\* python main.py or python main_test.py
supervisor_entry ==
    /\ supervisor.pc = "entry"
    /\ \E script \in {"main", "main_test"} :
          supervisor' = [supervisor EXCEPT !.script = script, !.pc = "try"]
    /\ UNCHANGED not_supervisor

\* config_content.split('\n'): the lines of a text, the text after the last
\* "\n" included
RECURSIVE split(_)
split(config_content) ==
    IF config_content = <<>> THEN << <<>> >>
    ELSE LET rest == split(Tail(config_content))
         IN  IF Head(config_content) = "\n"
             THEN << <<>> >> \o rest
             ELSE << <<Head(config_content)>> \o Head(rest) >> \o Tail(rest)

\* an update that replaces every line the key occurs in
update_config_any_position(config_content, udp_host, udp_port) ==
    LET lines == split(config_content)
        RECURSIVE join(_)
        join(ls) == IF Len(ls) = 1 THEN ls[1]
                    ELSE ls[1] \o <<"\n">> \o join(Tail(ls))
        has(line, key) == \E k \in 1 .. Len(line) : line[k] = key
    IN  join([k \in 1 .. Len(lines) |->
                IF has(lines[k], "UDP_HOST = ")
                THEN <<"UDP_HOST = ", udp_host>>
                ELSE IF has(lines[k], "UDP_PORT = ")
                THEN <<"UDP_PORT = ", udp_port>>
                ELSE lines[k]])

\* update_config_for_production from the split to '\n'.join(updated_lines);
\* udp_host is the host as the f-string renders it, between quotes
update_config_for_production(config_content, udp_host, udp_port) ==
    LET lines == split(config_content)
        RECURSIVE join(_)
        join(ls) == IF Len(ls) = 1 THEN ls[1]
                    ELSE ls[1] \o <<"\n">> \o join(Tail(ls))
        startswith(line, prefix) == line # <<>> /\ Head(line) = prefix
    IN  join([k \in 1 .. Len(lines) |->
                IF startswith(lines[k], "UDP_HOST = ")
                THEN <<"UDP_HOST = ", udp_host>>
                ELSE IF startswith(lines[k], "UDP_PORT = ")
                THEN <<"UDP_PORT = ", udp_port>>
                ELSE lines[k]])

\* update_config_for_test: the same rewrite with the test values
update_config_for_test(config_content) ==
    update_config_for_production(config_content, "'localhost'", "12344")

\* update_config_for_production('localhost', bridge_port) in main.py,
\* update_config_for_test() in main_test.py: the file is read, rewritten and
\* written back; an error is logged and re-raised, and lands in the except
\* Exception clause, with the file as it was or, when the error comes after
\* open(config_path, 'w'), empty
supervisor_update_config ==
    /\ supervisor.pc = "try"
    /\ CurrentStep.op = "update_config"
    /\ \E written \in BOOLEAN, truncated \in BOOLEAN :
          supervisor' =
             IF written
             THEN [supervisor EXCEPT
                     !.config_py =
                        IF supervisor.script = "main"
                        THEN update_config_for_production(@, "'localhost'", "12344")
                        ELSE update_config_for_test(@),
                     !.config_written = TRUE,
                     !.step = @ + 1]
             ELSE [supervisor EXCEPT
                     !.config_py = IF truncated THEN <<>> ELSE @,
                     !.pc = "finally"]
    /\ UNCHANGED not_supervisor

\* subprocess.Popen(...): the child runs from here on; an OSError lands in
\* the except Exception clause
supervisor_Popen ==
    /\ supervisor.pc = "try"
    /\ CurrentStep.op = "Popen"
    /\ \E started \in BOOLEAN :
          supervisor' = IF started
                        THEN [supervisor EXCEPT
                                 !.child[CurrentStep.child] = "running",
                                 !.pending = CurrentStep.child,
                                 !.step = @ + 1]
                        ELSE [supervisor EXCEPT !.pc = "finally"]
    /\ UNCHANGED not_supervisor

\* processes.append((name, process))
supervisor_append ==
    /\ supervisor.pc = "try"
    /\ CurrentStep.op = "append"
    /\ supervisor' = [supervisor EXCEPT
                         !.processes = Append(@, CurrentStep.child),
                         !.pending = "none",
                         !.step = @ + 1]
    /\ UNCHANGED not_supervisor

\* the monitor loop, one turn of its for: process.poll() is not None for the
\* child at hand, so all_running = False and both loops are left; otherwise
\* the turn goes on to read the child's output
supervisor_monitor_poll ==
    /\ supervisor.pc = "try"
    /\ CurrentStep.op = "monitor"
    /\ supervisor' =
          IF supervisor.child[supervisor.processes[supervisor.mon]] = "exited"
          THEN [supervisor EXCEPT !.pc = "finally"]
          ELSE [supervisor EXCEPT !.pc = "readline"]
    /\ UNCHANGED not_supervisor

\* the monitor loop: line = process.stdout.readline() returns when the child
\* has written a line or has closed its pipe by exiting, and blocks until
\* then; the for goes to the next child, or after the last one and
\* time.sleep(0.1) starts again with the first
supervisor_monitor_readline ==
    /\ supervisor.pc = "readline"
    /\ LET c == supervisor.processes[supervisor.mon]
       IN  /\ c \in supervisor.output \/ supervisor.child[c] = "exited"
           /\ supervisor' = [supervisor EXCEPT
                                !.output = @ \ {c},
                                !.mon = IF @ < Len(supervisor.processes)
                                        THEN @ + 1 ELSE 1,
                                !.pc = "try"]
    /\ UNCHANGED not_supervisor

\* Ctrl+C: KeyboardInterrupt is raised in the try body, wherever it is; the
\* bare except around readline swallows it and the for goes on
supervisor_KeyboardInterrupt ==
    /\ supervisor.pc \in {"try", "readline"}
    /\ supervisor' =
          IF supervisor.pc = "try"
          THEN [supervisor EXCEPT !.pc = "finally"]
          ELSE [supervisor EXCEPT !.mon = IF @ < Len(supervisor.processes)
                                          THEN @ + 1 ELSE 1,
                                  !.pc = "try"]
    /\ UNCHANGED not_supervisor

\* a running child writes a line to its stdout pipe
child_writes ==
    /\ supervisor.pc \in {"try", "readline"}
    /\ \E c \in Children :
          /\ supervisor.child[c] = "running"
          /\ c \notin supervisor.output
          /\ supervisor' = [supervisor EXCEPT !.output = @ \cup {c}]
    /\ UNCHANGED not_supervisor

\* a child process ends by itself
child_exits ==
    /\ supervisor.pc \in {"try", "readline", "finally", "wait", "kill"}
    /\ \E c \in Children :
          /\ supervisor.child[c] = "running"
          /\ supervisor' = [supervisor EXCEPT !.child[c] = "exited"]
    /\ UNCHANGED not_supervisor

\* finally, one child of the list: process.terminate(); an exception of it
\* is reported and the loop goes to the next child
finally_terminate ==
    /\ supervisor.pc = "finally"
    /\ supervisor.i <= Len(supervisor.processes)
    /\ \E raises \in BOOLEAN :
          LET c == supervisor.processes[supervisor.i]
          IN  supervisor' =
                 IF raises
                 THEN [supervisor EXCEPT !.stop_failed = @ \cup {c}, !.i = @ + 1]
                 ELSE [supervisor EXCEPT !.terminated = @ \cup {c}, !.pc = "wait"]
    /\ UNCHANGED not_supervisor

\* process.wait(timeout=5): the child has exited within 5 s, or
\* subprocess.TimeoutExpired
finally_wait ==
    /\ supervisor.pc = "wait"
    /\ LET c == supervisor.processes[supervisor.i]
       IN  \E exited \in BOOLEAN :
              /\ supervisor.child[c] = "exited" => exited
              /\ supervisor' =
                    IF exited
                    THEN [supervisor EXCEPT !.child[c] = "exited", !.i = @ + 1,
                                            !.pc = "finally"]
                    ELSE [supervisor EXCEPT !.pc = "kill"]
    /\ UNCHANGED not_supervisor

\* except subprocess.TimeoutExpired: process.kill(); process.wait()
finally_kill ==
    /\ supervisor.pc = "kill"
    /\ LET c == supervisor.processes[supervisor.i]
       IN  supervisor' = [supervisor EXCEPT !.killed = @ \cup {c},
                                            !.child[c] = "exited",
                                            !.i = @ + 1, !.pc = "finally"]
    /\ UNCHANGED not_supervisor

\* the end of the finally clause: the function returns
supervisor_return ==
    /\ supervisor.pc = "finally"
    /\ supervisor.i > Len(supervisor.processes)
    /\ supervisor' = [supervisor EXCEPT !.pc = "returned"]
    /\ UNCHANGED not_supervisor

SupervisorNext ==
    \/ supervisor_entry
    \/ supervisor_update_config
    \/ supervisor_Popen
    \/ supervisor_append
    \/ supervisor_monitor_poll
    \/ supervisor_monitor_readline
    \/ supervisor_KeyboardInterrupt
    \/ child_writes
    \/ child_exits
    \/ finally_terminate
    \/ finally_wait
    \/ finally_kill
    \/ supervisor_return

SupervisorSpec == ServerInit /\ [][SupervisorNext]_vars

\* server/config.py as the repository has it is edited before the launcher
\* is started: any text of up to MaxTokens tokens, with the two keys at the
\* start of a line, after an indentation and after a value
config_file_edited ==
    /\ supervisor.pc = "entry"
    /\ supervisor.config_py = Supervisor_init.config_py
    /\ \E n \in 0 .. MaxTokens :
          \E config_content \in [1 .. n -> {"UDP_HOST = ", "UDP_PORT = ",
                                            "'192.168.137.1'", "12346", " ", "\n"}] :
             supervisor' = [supervisor EXCEPT !.config_py = config_content]
    /\ UNCHANGED not_supervisor

\* the launcher up to the start of its last child, on any config file
ConfigNext ==
    \/ config_file_edited
    \/ supervisor_entry
    \/ supervisor_update_config
    \/ supervisor_Popen
    \/ supervisor_append

ConfigSpec == ServerInit /\ [][ConfigNext]_vars

\* the launcher's own steps are scheduled; what the children do and Ctrl+C
\* are up to the environment
SupervisorFairSpec ==
    /\ ServerInit
    /\ [][SupervisorNext]_vars
    /\ WF_vars(supervisor_entry)
    /\ WF_vars(supervisor_update_config)
    /\ WF_vars(supervisor_Popen)
    /\ WF_vars(supervisor_append)
    /\ WF_vars(supervisor_monitor_poll)
    /\ WF_vars(supervisor_monitor_readline)
    /\ WF_vars(finally_terminate)
    /\ WF_vars(finally_wait)
    /\ WF_vars(finally_kill)
    /\ WF_vars(supervisor_return)

-----------------------------------------------------------------------------
(* Claims about the launchers                                               *)

\* C26: when start_production_servers / start_servers has returned, every
\* child process it started has been stopped, except a child whose
\* terminate call itself failed.
C26_ChildrenStopped ==
    supervisor.pc = "returned" =>
        \A c \in Children :
            supervisor.child[c] # "none" =>
                \/ supervisor.child[c] = "exited"
                \/ c \in supervisor.stop_failed

-----------------------------------------------------------------------------
(* Further claims on the WebSocket bridge                                   *)

\* C36: whenever the listener thread is in its receive loop and has received
\* a datagram (and stop() has not been called) the broadcast task is running
\* too: the task never finds self.running false at start-up and exits while
\* the listener goes on to receive data.
C36_BroadcastRunsWithListener ==
    (/\ bridge.udp_thread = "listening"
     /\ bridge.running
     /\ bridge.packets_received > 0
     /\ ~bridge.stop_called)
        => bridge.task # "stopped"

\* C37: outside a broadcast in progress, every received message is either
\* sent, dropped or still pending:
\* packets_received = packets_sent + packets_dropped + (1 if pending else 0).
C37_CountersAccount ==
    bridge.task # "send" =>
        bridge.packets_received =
            bridge.packets_sent + bridge.packets_dropped
            + (IF bridge.latest_message # NoMessage THEN 1 ELSE 0)

-----------------------------------------------------------------------------
(* Further claims about the DART adapter                                    *)

\* C40: packets_sent never exceeds packets_received, and the seq values of
\* the datagrams that reached the bridge port are 1, 2, 3, ... without gaps.
C40_SeqConsecutive ==
    /\ adapter.packets_sent <= adapter.packets_received
    /\ \A k \in 1 .. Len(adapter.forwarded) : adapter.forwarded[k].seq = k

-----------------------------------------------------------------------------
(* Further claims about the UDP test server                                 *)

\* C39: at most one live client_handler thread streams to the client address
\* at any time.
C39_OneHandlerPerClient ==
    Cardinality({h \in 1 .. MaxMessages :
                    test_server.handlers[h] \in {"check", "send"}}) <= 1

\* C31: once a listed child has stopped while the launcher is in its monitor
\* loop, the launcher eventually leaves the loop, stops the remaining
\* children and returns, whether or not the other children write output.
C31_ChildExitDetected ==
    (/\ supervisor.pc \in {"try", "readline"}
     /\ CurrentStep.op = "monitor"
     /\ \E k \in 1 .. Len(supervisor.processes) :
           supervisor.child[supervisor.processes[k]] = "exited")
        ~> supervisor.pc = "returned"

\* C35: at Terminated after a successful initialization, in vision mode as
\* in mocap mode, open_port has been called as many times as close_port.
C35_PortsClosed ==
    (Terminated /\ tracker # None) => dyna_opened = dyna_closed

\* C34: when the construction of the tracker has failed, whatever had been
\* acquired by then is released at Terminated: the mocap streamer and the
\* UDP socket are closed, a started vision subprocess has been signalled to
\* stop, and every opened actuator port has been closed.
C34_FailedInitReleases ==
    (Terminated /\ tracker = None) =>
        /\ mocap_streamer # "started"
        /\ udp_socket # "open"
        /\ visual_process = "alive" => visual_terminate
        /\ dyna_opened = dyna_closed

\* C32: a config update rewrites the lines that start with 'UDP_HOST = ' and
\* 'UDP_PORT = ' and no other line, keeps the number and the order of the
\* lines, changes nothing when applied a second time, and has been written
\* by the time the bridge process is started.
C32_ConfigRewrite ==
    /\ [](supervisor.child["WebSocket Bridge Server"] # "none"
            => supervisor.config_written)
    /\ [][ (supervisor'.config_written /\ ~supervisor.config_written) =>
             LET old == split(supervisor.config_py)
                 new == split(supervisor'.config_py)
             IN  /\ Len(new) = Len(old)
                 /\ \A k \in 1 .. Len(old) :
                       new[k] = IF old[k] # <<>> /\ old[k][1] = "UDP_HOST = "
                                THEN <<"UDP_HOST = ", "'localhost'">>
                                ELSE IF old[k] # <<>> /\ old[k][1] = "UDP_PORT = "
                                THEN <<"UDP_PORT = ", "12344">>
                                ELSE old[k]
                 /\ update_config_for_production(supervisor'.config_py,
                                                 "'localhost'", "12344")
                       = supervisor'.config_py
                 /\ update_config_for_test(supervisor'.config_py)
                       = supervisor'.config_py ]_vars

\* the bridge runs on a rewritten file whose indented key line was kept
C32_Witness ==
    /\ supervisor.child["WebSocket Bridge Server"] = "running"
    /\ supervisor.config_written
    /\ supervisor.config_py
          = <<" ", "UDP_HOST = ", "\n", "UDP_HOST = ", "'localhost'">>

-----------------------------------------------------------------------------
(* UDP test server: the linear trajectory (generate_linear_coordinates,     *)
(* generate_3d_coordinates), called by every handler thread on the shared   *)
(* trajectory_state without a lock; a step is the code between two points   *)
(* where another thread's writes can be seen                                *)

\* LINEAR_DURATION = 5.0 and LINEAR_LOOP_DELAY = 3.5 seconds, in half seconds
LINEAR_DURATION == 10
LINEAR_LOOP_DELAY == 7

\* LINEAR_START_POSITION
LINEAR_START_POSITION == <<0, 120, 0>>

\* generate_random_target: LINEAR_TARGET_POSITION (-60, 80, 0) moved by 5 to
\* 25 in the x-z plane and by up to 15 in height
LinearTargets == { <<-85, 65, 0>>, <<-60, 95, -25>> }

\* math.sin(progress * math.pi * curve_frequency) in hundredths, to within
\* 0.02: the angle to the nearest degree, the sine by Bhaskara's quotient
SinCenti(progress) ==
    LET d == RoundDiv(360 * progress, LINEAR_DURATION * LINEAR_DURATION) % 360
        h == IF d <= 180 THEN d ELSE d - 180
        v == RoundDiv(400 * h * (180 - h), 40500 - h * (180 - h))
    IN  IF d <= 180 THEN v ELSE -v

\* generate_linear_coordinates from the interpolation on and the clamping
\* and rounding of generate_3d_coordinates: x, y, z in hundredths
generate_3d_coordinates(progress, target) ==
    LET D2 == LINEAR_DURATION * LINEAR_DURATION
        along(k) == 100 * (LINEAR_START_POSITION[k] * D2
                             + (target[k] - LINEAR_START_POSITION[k]) * progress)
        y_offset == 5 * SinCenti(progress) * (D2 - progress)
    IN  [ kind |-> "coordinates",
          x |-> Max(Min(RoundDiv(along(1), D2), 20000), -20000),
          y |-> Max(Min(RoundDiv(along(2) + y_offset, D2), 20000), -10000),
          z |-> Max(Min(RoundDiv(along(3), D2), 20000), -20000),
          progress |-> progress ]

\* the handler thread's next call: current_time = time.time() and the test
\* of trajectory_state['linear_in_delay']
linear_enter ==
    /\ \E t \in HandlerThreads :
          /\ test_server.calls[t].pc = "idle"
          /\ LET ts == test_server.trajectory_state
             IN  test_server' = [test_server EXCEPT !.calls[t] =
                    [ pc |-> IF ts.linear_in_delay THEN "delay_start" ELSE "start",
                      current_time |-> test_server.clock,
                      elapsed_time |-> 0,
                      began_in_delay |->
                         /\ ts.linear_in_delay
                         /\ \/ ts.linear_delay_start = NoTime
                            \/ test_server.clock - ts.linear_delay_start
                                  < LINEAR_LOOP_DELAY,
                      result |-> [kind |-> "pending"] ]]
    /\ UNCHANGED not_test_server

\* if trajectory_state['linear_delay_start'] is None: ... = current_time
linear_delay_start ==
    /\ \E t \in HandlerThreads :
          /\ test_server.calls[t].pc = "delay_start"
          /\ test_server' = [test_server EXCEPT
                !.trajectory_state.linear_delay_start =
                    IF @ = NoTime THEN test_server.calls[t].current_time ELSE @,
                !.calls[t].pc = "delay_elapsed"]
    /\ UNCHANGED not_test_server

\* elapsed_delay = current_time - trajectory_state['linear_delay_start'],
\* a TypeError when another thread has set it to None, which ends the
\* handler thread; the delay is over (linear_in_delay = False), or None is
\* returned
linear_delay_elapsed ==
    /\ \E t \in HandlerThreads :
          /\ test_server.calls[t].pc = "delay_elapsed"
          /\ LET ts == test_server.trajectory_state
                 c == test_server.calls[t]
             IN  test_server' =
                    IF ts.linear_delay_start = NoTime
                    THEN [test_server EXCEPT
                            !.calls[t].pc = "ended",
                            !.calls[t].result = [kind |-> "TypeError"]]
                    ELSE IF c.current_time - ts.linear_delay_start >= LINEAR_LOOP_DELAY
                    THEN [test_server EXCEPT
                            !.trajectory_state.linear_in_delay = FALSE,
                            !.calls[t].pc = "delay_end"]
                    ELSE [test_server EXCEPT
                            !.calls[t].pc = "idle",
                            !.calls[t].result = [kind |-> "None"]]
    /\ UNCHANGED not_test_server

\* the rest of the end of the delay: delay start, start time, progress and
\* target are reset
linear_delay_end ==
    /\ \E t \in HandlerThreads :
          /\ test_server.calls[t].pc = "delay_end"
          /\ test_server' = [test_server EXCEPT
                !.trajectory_state.linear_delay_start = NoTime,
                !.trajectory_state.linear_start_time = NoTime,
                !.trajectory_state.linear_progress = 0,
                !.trajectory_state.linear_current_target = <<>>,
                !.calls[t].pc = "start"]
    /\ UNCHANGED not_test_server

\* if trajectory_state['linear_start_time'] is None: a new trajectory with
\* a target of generate_random_target()
linear_start ==
    /\ \E t \in HandlerThreads :
          /\ test_server.calls[t].pc = "start"
          /\ IF test_server.trajectory_state.linear_start_time = NoTime
             THEN \E target \in LinearTargets :
                     test_server' = [test_server EXCEPT
                        !.trajectory_state.linear_start_time =
                            test_server.calls[t].current_time,
                        !.trajectory_state.linear_progress = 0,
                        !.trajectory_state.linear_current_target = target,
                        !.targets_generated = @ + 1,
                        !.calls[t].pc = "elapsed"]
             ELSE test_server' = [test_server EXCEPT !.calls[t].pc = "elapsed"]
    /\ UNCHANGED not_test_server

\* elapsed_time = current_time - trajectory_state['linear_start_time'], a
\* TypeError when another thread has reset it; raw_progress >= 1.0 with
\* LINEAR_LOOP starts the delay and returns None
linear_elapsed ==
    /\ \E t \in HandlerThreads :
          /\ test_server.calls[t].pc = "elapsed"
          /\ LET ts == test_server.trajectory_state
                 c == test_server.calls[t]
             IN  test_server' =
                    IF ts.linear_start_time = NoTime
                    THEN [test_server EXCEPT
                            !.calls[t].pc = "ended",
                            !.calls[t].result = [kind |-> "TypeError"]]
                    ELSE IF c.current_time - ts.linear_start_time >= LINEAR_DURATION
                    THEN [test_server EXCEPT
                            !.trajectory_state.linear_in_delay = TRUE,
                            !.trajectory_state.linear_delay_start = c.current_time,
                            !.calls[t].pc = "idle",
                            !.calls[t].result = [kind |-> "None"]]
                    ELSE [test_server EXCEPT
                            !.calls[t].elapsed_time =
                                c.current_time - ts.linear_start_time,
                            !.calls[t].pc = "interpolate"]
    /\ UNCHANGED not_test_server

\* the decelerating speed profile, trajectory_state['linear_progress'] =
\* progress, and the coordinates towards the current target, a TypeError
\* when another thread has reset the target
linear_interpolate ==
    /\ \E t \in HandlerThreads :
          /\ test_server.calls[t].pc = "interpolate"
          /\ LET remaining == LINEAR_DURATION - test_server.calls[t].elapsed_time
                 progress == LINEAR_DURATION * LINEAR_DURATION - remaining * remaining
                 target == test_server.trajectory_state.linear_current_target
             IN  test_server' =
                    IF target = <<>>
                    THEN [test_server EXCEPT
                            !.trajectory_state.linear_progress = progress,
                            !.calls[t].pc = "ended",
                            !.calls[t].result = [kind |-> "TypeError"]]
                    ELSE [test_server EXCEPT
                            !.trajectory_state.linear_progress = progress,
                            !.calls[t].pc = "idle",
                            !.calls[t].result =
                                generate_3d_coordinates(progress, target)]
    /\ UNCHANGED not_test_server

\* half a second passes; no call of generate_3d_coordinates takes longer
trajectory_clock_advances ==
    /\ test_server.clock < MaxTime
    /\ \A t \in HandlerThreads :
          test_server.calls[t].pc \in {"idle", "ended"}
             \/ test_server.calls[t].current_time = test_server.clock
    /\ test_server' = [test_server EXCEPT !.clock = @ + 1]
    /\ UNCHANGED not_test_server

TrajectoryNext ==
    \/ linear_enter
    \/ linear_delay_start
    \/ linear_delay_elapsed
    \/ linear_delay_end
    \/ linear_start
    \/ linear_elapsed
    \/ linear_interpolate
    \/ trajectory_clock_advances

TrajectorySpec == ServerInit /\ [][TrajectoryNext]_vars

\* C33: the linear trajectory cycles flight, delay, flight: a call made
\* while the delay after a completed flight has not elapsed returns None, a
\* new flight starts with progress 0 and a target chosen for it, and every
\* emitted coordinate is within COORDINATE_RANGE_X, _Y and _Z.
C33_FlightDelayCycle ==
    /\ [](\A t \in HandlerThreads :
            LET c == test_server.calls[t]
            IN  /\ (c.result.kind # "pending" /\ c.began_in_delay)
                      => c.result.kind = "None"
                /\ c.result.kind = "coordinates" =>
                      /\ c.result.x \in -20000 .. 20000
                      /\ c.result.y \in -10000 .. 20000
                      /\ c.result.z \in -20000 .. 20000)
    /\ [][ LET ts == test_server.trajectory_state
               new == test_server'.trajectory_state
           IN  (new.linear_start_time # ts.linear_start_time
                  /\ new.linear_start_time # NoTime) =>
                   /\ new.linear_progress = 0
                   /\ new.linear_current_target \in LinearTargets
                   /\ test_server'.targets_generated
                         = test_server.targets_generated + 1 ]_vars

=============================================================================
